---- MODULE Spec2Model ----
(***************************************************************************)
(* A model of the EPEE decoder of monero-oxide (epee/src): the byte        *)
(* source (io.rs), the fixed-capacity traversal stack (stack.rs), the      *)
(* transition function single_step/step (parser.rs) and the cursor API     *)
(* Epee / EpeeEntry / FieldIterator / ArrayIterator (lib.rs).              *)
(*                                                                         *)
(* The caller is modelled as the borrow checker allows it to behave: the   *)
(* cursors form a chain of exclusive borrows, so only the innermost live   *)
(* cursor can be used or dropped.                                          *)
(***************************************************************************)
EXTENDS Integers, Sequences, FiniteSets, TLC

VARIABLES
  encoding,   \* the bytes handed to Epee::new (never modified)
  pos,        \* how many bytes of `encoding` current_encoding_state has consumed
  phase,      \* "pending" (before Epee::new), "open" (an Epee exists), "failed" (new returned Err)
  stack,      \* Epee::stack: [types, amounts, depth]
  error,      \* Epee::error, the sticky error (NoError when None)
  cursors,    \* the live cursors, outermost first; the last one is the only usable one
  last,       \* the last operation: its name, result, value, the state before it, the cursor it used
  clean,      \* no operation has returned an error so far
  taken       \* how many times entry() has returned an entry

vars == <<encoding, pos, phase, stack, error, cursors, last, clean, taken>>

\* The one element of a singleton set: The({ F(r) : r \in {e} }) is F(e) with e
\* evaluated once and named r
The(S) == CHOOSE x \in S : TRUE

(***************************************************************************)
(* lib.rs: constants and errors                                            *)
(***************************************************************************)
HEADER == <<1, 17, 1, 1, 1, 1, 2, 1>>
VERSION == 1

\* An EpeeError value; `n` is the payload of Short(n) and InvalidVersion(Some(n)),
\* -1 for InvalidVersion(None), 0 when the variant has no payload.
Err(e, n) == [e |-> e, n |-> n]
Ok == Err("Ok", 0)
NoError == Err("None", 0)
InternalError == Err("InternalError", 0)
InvalidHeader == Err("InvalidHeader", 0)
InvalidVersion(v) == Err("InvalidVersion", v)
Short(n) == Err("Short", n)
UnrecognizedType == Err("UnrecognizedType", 0)
EmptyKey == Err("EmptyKey", 0)
DepthLimitExceeded == Err("DepthLimitExceeded", 0)
TypeError == Err("TypeError", 0)
EpeeReuse == Err("EpeeReuse", 0)
\* A Rust panic (an index out of range, PackedTypes::get on 13..=15, an underflow).
Panic == Err("Panic", 0)

(***************************************************************************)
(* parser.rs: Type, TypeOrEntry. A kind is its four-bit tag: 0 is          *)
(* TypeOrEntry::Entry, 1..12 are TypeOrEntry::Type(_).                     *)
(***************************************************************************)
Entry == 0
Int64 == 1
Int32 == 2
Int16 == 3
Int8 == 4
Uint64 == 5
Uint32 == 6
Uint16 == 7
Uint8 == 8
Double == 9
String == 10
Bool == 11
Object == 12
ArrayFlag == 128

ScalarKinds == {Int64, Int32, Int16, Int8, Uint64, Uint32, Uint16, Uint8, Double, Bool}

\* core::mem::size_of of the scalar a kind stands for
SizeOf(kind) ==
  CASE kind \in {Int64, Uint64, Double} -> 8
    [] kind \in {Int32, Uint32} -> 4
    [] kind \in {Int16, Uint16} -> 2
    [] OTHER -> 1

(***************************************************************************)
(* stack.rs                                                                *)
(***************************************************************************)
EPEE_LIB_MAX_OBJECT_DEPTH == 100
MAX_OBJECT_DEPTH == EPEE_LIB_MAX_OBJECT_DEPTH + 2

\* PackedTypes: MAX_OBJECT_DEPTH.div_ceil(2) bytes, two four-bit tags per byte.
\* Rust index i is sequence index i + 1.
PackedLen == (MAX_OBJECT_DEPTH + 1) \div 2

\* get that forgets the shift: the low tag of the byte, whatever the index
PackedGetLowTag(types, i) == types[(i \div 2) + 1] % 16

\* PackedTypes::get: (self.0[i / 2] >> ((i & 1) * 4)) & 0b1111; the caller sees a
\* panic for the tags 13..=15 (and for an index out of range).
PackedGet(types, i) ==
  LET byte == types[(i \div 2) + 1]
  IN  IF i % 2 = 0 THEN byte % 16 ELSE byte \div 16

\* set that writes the whole byte, clearing the tag that shares it
PackedSetWholeByte(types, i, kind) ==
  [types EXCEPT ![(i \div 2) + 1] = IF i % 2 = 0 THEN kind ELSE kind * 16]

\* PackedTypes::set: clear the nibble with 0b11110000 >> shift, then or the tag in.
PackedSet(types, i, kind) ==
  LET byte == types[(i \div 2) + 1]
      cleared == IF i % 2 = 0 THEN (byte \div 16) * 16 ELSE byte % 16
      tag == IF i % 2 = 0 THEN kind ELSE kind * 16
  IN  [types EXCEPT ![(i \div 2) + 1] = cleared + tag]

\* A root slot scheduled for two objects
RootObjectTwice ==
  [types |-> PackedSet([i \in 1..PackedLen |-> 0], 0, Object),
   amounts |-> [i \in 1..MAX_OBJECT_DEPTH |-> IF i = 1 THEN 2 ELSE 1],
   depth |-> 1]

\* Stack::root_object
root_object ==
  [types |-> PackedSet([i \in 1..PackedLen |-> 0], 0, Object),
   amounts |-> [i \in 1..MAX_OBJECT_DEPTH |-> 1],
   depth |-> 1]

\* Stack::depth
depth(s) == s.depth

\* Stack::peek: <<kind, amount>>, or <<>> for None
peek(s) ==
  IF depth(s) = 0 THEN <<>>
  ELSE <<PackedGet(s.types, depth(s) - 1), s.amounts[depth(s)]>>

\* pop that lowers an amount but never the depth
PopKeepsDepth(s) ==
  IF depth(s) = 0 THEN [stack |-> s, kind |-> -1]
  ELSE [stack |-> [s EXCEPT !.amounts[depth(s)] = IF @ > 1 THEN @ - 1 ELSE 1],
        kind |-> PackedGet(s.types, depth(s) - 1)]

\* Stack::pop: the stack after, and the kind popped (-1 for None)
pop(s) ==
  IF depth(s) = 0 THEN [stack |-> s, kind |-> -1]
  ELSE LET i == depth(s) - 1
           amount == s.amounts[i + 1] - 1
       IN  [stack |-> IF amount # 0
                        THEN [s EXCEPT !.amounts[i + 1] = amount]
                        ELSE [s EXCEPT !.depth = @ - 1],
            kind |-> PackedGet(s.types, i)]

\* push that refuses one slot early
PushOffByOne(s, kind, amount) ==
  IF depth(s) >= MAX_OBJECT_DEPTH - 1 THEN [stack |-> s, res |-> DepthLimitExceeded]
  ELSE IF amount = 0 THEN [stack |-> s, res |-> Ok]
  ELSE [stack |-> [types |-> PackedSet(s.types, depth(s), kind),
                   amounts |-> [s.amounts EXCEPT ![depth(s) + 1] = amount],
                   depth |-> depth(s) + 1],
        res |-> Ok]

\* push that schedules an amount of two or more as two slots
PushSplit(s, kind, amount) ==
  IF depth(s) = MAX_OBJECT_DEPTH THEN [stack |-> s, res |-> DepthLimitExceeded]
  ELSE IF amount = 0 THEN [stack |-> s, res |-> Ok]
  ELSE IF amount = 1 \/ depth(s) + 2 > MAX_OBJECT_DEPTH
    THEN [stack |-> [types |-> PackedSet(s.types, depth(s), kind),
                     amounts |-> [s.amounts EXCEPT ![depth(s) + 1] = amount],
                     depth |-> depth(s) + 1],
          res |-> Ok]
  ELSE [stack |-> [types |-> PackedSet(PackedSet(s.types, depth(s), kind), depth(s) + 1, kind),
                   amounts |-> [s.amounts EXCEPT ![depth(s) + 1] = amount - 1,
                                                 ![depth(s) + 2] = 1],
                   depth |-> depth(s) + 2],
        res |-> Ok]

\* Stack::push: the stack after, and Ok or the error
push(s, kind, amount) ==
  IF depth(s) = MAX_OBJECT_DEPTH THEN [stack |-> s, res |-> DepthLimitExceeded]
  ELSE IF amount = 0 THEN [stack |-> s, res |-> Ok]
  ELSE [stack |-> [types |-> PackedSet(s.types, depth(s), kind),
                   amounts |-> [s.amounts EXCEPT ![depth(s) + 1] = amount],
                   depth |-> depth(s) + 1],
        res |-> Ok]

\* The live part of a stack, bottom first: what the decoder can still read of it.
Slots(s) == [i \in 1..depth(s) |-> <<PackedGet(s.types, i - 1), s.amounts[i]>>]

(***************************************************************************)
(* io.rs: BytesLike for &[u8], read_varint, read_str. The slice is         *)
(* `encoding` from offset p on; every operation gives the offset after it. *)
(***************************************************************************)
Remaining(p) == Len(encoding) - p

\* read_bytes that gives what is left, padded with zeros, when fewer bytes remain
ReadBytesPadded(p, bytes) ==
  [pos |-> IF Remaining(p) < bytes THEN Len(encoding) ELSE p + bytes,
   res |-> Ok,
   val |-> [i \in 1..bytes |-> IF p + i <= Len(encoding) THEN encoding[p + i] ELSE 0]]

\* read_bytes that hands the bytes out and leaves the slice where it was
ReadBytesInPlace(p, bytes) ==
  IF Remaining(p) < bytes
    THEN [pos |-> p, res |-> Short(bytes), val |-> <<>>]
    ELSE [pos |-> p, res |-> Ok, val |-> SubSeq(encoding, p + 1, p + bytes)]

\* read_bytes: Short(bytes) and the slice untouched when fewer remain
read_bytes(p, bytes) ==
  IF Remaining(p) < bytes
    THEN [pos |-> p, res |-> Short(bytes), val |-> <<>>]
    ELSE [pos |-> p + bytes, res |-> Ok, val |-> SubSeq(encoding, p + 1, p + bytes)]

\* read_into_slice that copies what is left before it fails
ReadIntoSlicePartial(p, n) ==
  IF Remaining(p) < n
    THEN [pos |-> Len(encoding), res |-> Short(n), val |-> <<>>]
    ELSE [pos |-> p + n, res |-> Ok, val |-> SubSeq(encoding, p + 1, p + n)]

\* read_into_slice: read_bytes of the destination's length
read_into_slice(p, n) == read_bytes(p, n)

\* read_byte: read_into_slice of one byte; val is the byte
read_byte(p) ==
  The({ [pos |-> r.pos, res |-> r.res, val |-> IF r.res = Ok THEN r.val[1] ELSE 0]
        : r \in {read_into_slice(p, 1)} })

\* advance that checks the length and leaves the slice where it was
AdvanceInPlace(p, n) ==
  [pos |-> p, res |-> IF Remaining(p) < n THEN Short(n) ELSE Ok]

\* advance::<N>: read_bytes(N) with the bytes thrown away
advance(p, n) == The({ [pos |-> r.pos, res |-> r.res] : r \in {read_bytes(p, n)} })

\* The little-endian value of bytes[1..k] (most significant byte first in the
\* recursion, so that leading zero bytes never overflow)
RECURSIVE LittleEndian(_, _)
LittleEndian(bytes, k) ==
  IF k = 0 THEN 0 ELSE bytes[1] + 256 * LittleEndian(Tail(bytes), k - 1)

\* read_varint: the low two bits of the first byte give the width 1, 2, 4 or 8;
\* the bytes are read one at a time, so a short read leaves the bytes before it consumed.
\* A width that grows by one byte a tag
VarintWidthLinear(first) == (first % 4) + 1

VarintWidth(first) ==
  CASE first % 4 = 0 -> 1 [] first % 4 = 1 -> 2 [] first % 4 = 2 -> 4 [] OTHER -> 8

read_varint(p) ==
  The({ IF first.res # Ok THEN [pos |-> first.pos, res |-> first.res, val |-> 0]
        ELSE LET len == VarintWidth(first.val)
             IN  IF Remaining(p) < len
                   THEN [pos |-> Len(encoding), res |-> Short(1), val |-> 0]
                   ELSE [pos |-> p + len, res |-> Ok,
                         val |-> LittleEndian(SubSeq(encoding, p + 1, p + len), len) \div 4]
        : first \in {read_byte(p)} })

\* read_str: a varint length, then that many bytes
read_str(p) ==
  The({ IF len.res # Ok THEN [pos |-> len.pos, res |-> len.res, val |-> <<>>]
        ELSE read_bytes(len.pos, len.val)
        : len \in {read_varint(p)} })

(***************************************************************************)
(* parser.rs: Type::read, read_key, Stack::single_step, Stack::step        *)
(***************************************************************************)
\* Type::read that takes every code a four-bit tag holds
TypeReadAnyTag(p) ==
  The({ IF tag.res # Ok THEN [pos |-> tag.pos, res |-> tag.res, kind |-> 0, len |-> 0]
        ELSE IF (tag.val % ArrayFlag) \notin Int64..15
          THEN [pos |-> tag.pos, res |-> UnrecognizedType, kind |-> 0, len |-> 0]
        ELSE IF tag.val \div ArrayFlag # 0
          THEN The({ [pos |-> len.pos, res |-> len.res, kind |-> tag.val % ArrayFlag,
                      len |-> len.val]
                     : len \in {read_varint(tag.pos)} })
        ELSE [pos |-> tag.pos, res |-> Ok, kind |-> tag.val % ArrayFlag, len |-> 1]
        : tag \in {read_byte(p)} })

\* Type::read that takes the code 0 for a type
TypeReadFromZero(p) ==
  The({ IF tag.res # Ok THEN [pos |-> tag.pos, res |-> tag.res, kind |-> 0, len |-> 0]
        ELSE IF (tag.val % ArrayFlag) \notin 0..Object
          THEN [pos |-> tag.pos, res |-> UnrecognizedType, kind |-> 0, len |-> 0]
        ELSE IF tag.val \div ArrayFlag # 0
          THEN The({ [pos |-> len.pos, res |-> len.res, kind |-> tag.val % ArrayFlag,
                      len |-> len.val]
                     : len \in {read_varint(tag.pos)} })
        ELSE [pos |-> tag.pos, res |-> Ok, kind |-> tag.val % ArrayFlag, len |-> 1]
        : tag \in {read_byte(p)} })

\* Type::read that counts the array itself as one more item
TypeReadOneMore(p) ==
  The({ IF tag.res # Ok THEN [pos |-> tag.pos, res |-> tag.res, kind |-> 0, len |-> 0]
        ELSE IF (tag.val % ArrayFlag) \notin Int64..Object
          THEN [pos |-> tag.pos, res |-> UnrecognizedType, kind |-> 0, len |-> 0]
        ELSE IF tag.val \div ArrayFlag # 0
          THEN The({ [pos |-> len.pos, res |-> len.res, kind |-> tag.val % ArrayFlag,
                      len |-> IF len.res = Ok THEN len.val + 1 ELSE len.val]
                     : len \in {read_varint(tag.pos)} })
        ELSE [pos |-> tag.pos, res |-> Ok, kind |-> tag.val % ArrayFlag, len |-> 1]
        : tag \in {read_byte(p)} })

\* Type::read: the tag byte, its array bit and type code, and the array length
\* (a varint when the array bit is set, 1 otherwise)
TypeRead(p) ==
  The({ IF tag.res # Ok THEN [pos |-> tag.pos, res |-> tag.res, kind |-> 0, len |-> 0]
        ELSE IF (tag.val % ArrayFlag) \notin Int64..Object
          THEN [pos |-> tag.pos, res |-> UnrecognizedType, kind |-> 0, len |-> 0]
        ELSE IF tag.val \div ArrayFlag # 0
          THEN The({ [pos |-> len.pos, res |-> len.res, kind |-> tag.val % ArrayFlag,
                      len |-> len.val]
                     : len \in {read_varint(tag.pos)} })
        ELSE [pos |-> tag.pos, res |-> Ok, kind |-> tag.val % ArrayFlag, len |-> 1]
        : tag \in {read_byte(p)} })

\* read_key that takes a length of 0 for a key of no bytes
ReadKeyAnyLen(p) ==
  The({ IF len.res # Ok THEN [pos |-> len.pos, res |-> len.res, val |-> <<>>]
        ELSE read_bytes(len.pos, len.val)
        : len \in {read_byte(p)} })

\* read_key: one length byte (EmptyKey when 0), then that many bytes
read_key(p) ==
  The({ IF len.res # Ok THEN [pos |-> len.pos, res |-> len.res, val |-> <<>>]
        ELSE IF len.val = 0 THEN [pos |-> len.pos, res |-> EmptyKey, val |-> <<>>]
        ELSE read_bytes(len.pos, len.val)
        : len \in {read_byte(p)} })

\* SingleStepResult, and None for an empty stack
StepNone == [tag |-> "None", fields |-> 0, key |-> <<>>, kind |-> 0, len |-> 0]
StepUnit == [tag |-> "Unit", fields |-> 0, key |-> <<>>, kind |-> 0, len |-> 0]
StepObject(fields) == [tag |-> "Object", fields |-> fields, key |-> <<>>, kind |-> 0, len |-> 0]
StepEntry(key, kind, len) == [tag |-> "Entry", fields |-> 0, key |-> key, kind |-> kind, len |-> len]

\* The end of single_step's Entry arm, which the repository's parser.rs leaves out
\* ("push that Type with the resulting count as the new top slot; produce
\* Entry{key, kind, len}").
EntryArmTail(s, p, key, kind, len) ==
  The({ [stack |-> pushed.stack, pos |-> p, res |-> pushed.res,
         out |-> IF pushed.res = Ok THEN StepEntry(key, kind, len) ELSE StepNone]
        : pushed \in {push(s, kind, len)} })

\* A scalar arm that advances by one byte whatever the kind
ScalarArmOneByte(s, p, kind) ==
  The({ [stack |-> s, pos |-> a.pos, res |-> a.res, out |-> StepUnit]
        : a \in {advance(p, 1)} })

\* single_step's arm for a scalar kind: advance by the scalar's size
ScalarArm(s, p, kind) ==
  The({ [stack |-> s, pos |-> a.pos, res |-> a.res, out |-> StepUnit]
        : a \in {advance(p, SizeOf(kind))} })

\* single_step's arm for Type::String: read_str, the string thrown away
StringArm(s, p) ==
  The({ [stack |-> s, pos |-> r.pos, res |-> r.res, out |-> StepUnit] : r \in {read_str(p)} })

\* An Object arm that schedules one field more than the count it read
ObjectArmOneMore(s, p) ==
  The({ IF fields.res # Ok
          THEN [stack |-> s, pos |-> fields.pos, res |-> fields.res, out |-> StepNone]
        ELSE The({ [stack |-> pushed.stack, pos |-> fields.pos, res |-> pushed.res,
                    out |-> IF pushed.res = Ok THEN StepObject(fields.val) ELSE StepNone]
                   : pushed \in {push(s, Entry, fields.val + 1)} })
        : fields \in {read_varint(p)} })

\* single_step's arm for Type::Object: the field count, then push(Entry, fields)
ObjectArm(s, p) ==
  The({ IF fields.res # Ok
          THEN [stack |-> s, pos |-> fields.pos, res |-> fields.res, out |-> StepNone]
        ELSE The({ [stack |-> pushed.stack, pos |-> fields.pos, res |-> pushed.res,
                    out |-> IF pushed.res = Ok THEN StepObject(fields.val) ELSE StepNone]
                   : pushed \in {push(s, Entry, fields.val)} })
        : fields \in {read_varint(p)} })

\* single_step's arm for TypeOrEntry::Entry: the key, the type and the length
EntryArm(s, p) ==
  The({ IF key.res # Ok
          THEN [stack |-> s, pos |-> key.pos, res |-> key.res, out |-> StepNone]
        ELSE The({ IF type.res # Ok
                     THEN [stack |-> s, pos |-> type.pos, res |-> type.res, out |-> StepNone]
                   ELSE EntryArmTail(s, type.pos, key.val, type.kind, type.len)
                   : type \in {TypeRead(key.pos)} })
        : key \in {read_key(p)} })

\* Stack::single_step: pop the top kind and decode one unit of it. An error leaves
\* the pop done and the bytes read before the error consumed.
single_step(s, p) ==
  The({ IF popped.kind = -1 THEN [stack |-> s, pos |-> p, res |-> Ok, out |-> StepNone]
        ELSE IF popped.kind > Object
          THEN [stack |-> s, pos |-> p, res |-> Panic, out |-> StepNone]
        ELSE IF popped.kind \in ScalarKinds THEN ScalarArm(popped.stack, p, popped.kind)
        ELSE IF popped.kind = String THEN StringArm(popped.stack, p)
        ELSE IF popped.kind = Object THEN ObjectArm(popped.stack, p)
        ELSE EntryArm(popped.stack, p)
        : popped \in {pop(s)} })

\* The depth at which Stack::step stops: the current depth when the top slot has
\* more than one item left, one less otherwise
\* A stop depth that forgets the items left in the slot
StopDepthBelow(s, len) == depth(s) - 1

StopDepth(s, len) == IF len > 1 THEN depth(s) ELSE depth(s) - 1

\* The loops of step and of the drops are run by halving: Run(m, fuel) is fuel
\* iterations from m, as the first half followed by the second, so that a loop of
\* hundreds of iterations nests only a few evaluations. A loop still running when
\* the fuel is spent gives Diverged; every iteration that neither fails nor finds
\* the stack empty consumes a byte, so the fuel is the bytes left plus one.
Diverged == Err("Diverged", 0)
Fuel(p) == Remaining(p) + 1

\* One iteration of step's loop: a single_step, its SingleStepResult thrown away
StepOnce(m) ==
  The({ [stack |-> r.stack, pos |-> r.pos, res |-> r.res] : r \in {single_step(m.stack, m.pos)} })

\* step's loop is over: a single_step failed (the `?`), or the depth is the stop depth
StepDone(m, stop_at_stack_depth) == m.res # Ok \/ depth(m.stack) = stop_at_stack_depth

RECURSIVE StepRun(_, _, _)
StepRun(m, stop_at_stack_depth, fuel) ==
  IF StepDone(m, stop_at_stack_depth) \/ fuel = 0 THEN m
  ELSE IF fuel = 1 THEN StepOnce(m)
  ELSE The({ StepRun(half, stop_at_stack_depth, fuel - (fuel \div 2))
             : half \in {StepRun(m, stop_at_stack_depth, fuel \div 2)} })

\* The do-while loop of Stack::step: one single_step, then more until the depth is
\* the stop depth
StepLoop(s, p, stop_at_stack_depth) ==
  The({ IF StepDone(m, stop_at_stack_depth) THEN m ELSE [m EXCEPT !.res = Diverged]
        : m \in {StepRun(StepOnce([stack |-> s, pos |-> p, res |-> Ok]),
                         stop_at_stack_depth, Fuel(p))} })

\* A step that is one single_step, whatever the depth after it
StepSingle(s, p) == StepOnce([stack |-> s, pos |-> p, res |-> Ok])

\* Stack::step: skip one scheduled item and all of its descendants
step(s, p) ==
  The({ IF top = <<>> THEN [stack |-> s, pos |-> p, res |-> Ok]
        ELSE IF top[1] > Object THEN [stack |-> s, pos |-> p, res |-> Panic]
        ELSE StepLoop(s, p, StopDepth(s, top[2]))
        : top \in {peek(s)} })

(***************************************************************************)
(* lib.rs: the drop of a cursor                                            *)
(***************************************************************************)
\* One iteration of a drop's loop: root.error = step().err(); self.len -= 1
DropOnce(d) ==
  The({ [stack |-> r.stack, pos |-> r.pos, error |-> IF r.res = Ok THEN NoError ELSE r.res,
         len |-> d.len - 1]
        : r \in {step(d.stack, d.pos)} })

\* A drop's loop that goes on with an error stored
DropDoneIgnoringError(d) == d.len = 0 \/ depth(d.stack) = 0

\* A drop's loop is over: an error is stored or nothing is left to skip. On an empty
\* stack step is Ok(None), so the iterations left change nothing.
DropDone(d) == d.error # NoError \/ d.len = 0 \/ depth(d.stack) = 0

RECURSIVE DropRun(_, _)
DropRun(d, fuel) ==
  IF DropDone(d) \/ fuel = 0 THEN d
  ELSE IF fuel = 1 THEN DropOnce(d)
  ELSE The({ DropRun(half, fuel - (fuel \div 2)) : half \in {DropRun(d, fuel \div 2)} })

\* A drop written with `if` for `while`: one step at most
DropLoopOnce(s, p, err, len) ==
  IF err # NoError \/ len = 0 THEN [stack |-> s, pos |-> p, error |-> err]
  ELSE The({ [stack |-> d.stack, pos |-> d.pos, error |-> d.error]
             : d \in {DropOnce([stack |-> s, pos |-> p, error |-> err, len |-> len])} })

\* The loop shared by Drop for EpeeEntry, FieldIterator and ArrayIterator:
\*   while root.error.is_none() && (self.len != 0) { root.error = step().err(); self.len -= 1 }
DropLoop(s, p, err, len) ==
  The({ [stack |-> d.stack, pos |-> d.pos,
         error |-> IF DropDone(d) THEN d.error ELSE Diverged]
        : d \in {DropRun([stack |-> s, pos |-> p, error |-> err, len |-> len], Fuel(p))} })

(***************************************************************************)
(* The inputs the decoder is run on                                        *)
(***************************************************************************)
Magic == HEADER \o <<VERSION>>

\* { "foo": 42u64 }
FooObject == <<4, 3, 102, 111, 111, Uint64, 42, 0, 0, 0, 0, 0, 0, 0>>
\* { "a": [7u8, 9u8], "b": "hi", "c": { "d": true } }; the field count is the
\* two-byte varint of 3
MixedObject ==
  <<13, 0>> \o <<1, 97, ArrayFlag + Uint8, 8, 7, 9>> \o <<1, 98, String, 8, 104, 105>>
    \o <<1, 99, Object, 4, 1, 100, Bool, 1>>
\* { "x": [ { "p": 5i16, "q": "" }, {} ], "y": 3u8 }
NestedObject ==
  <<8>> \o <<1, 120, ArrayFlag + Object, 8>> \o <<8, 1, 112, Int16, 5, 0, 1, 113, String, 0>>
    \o <<0>> \o <<1, 121, Uint8, 3>>
\* { "e": [] (u8), "g": [6u32] (array bit, length 1), "s": ["k", ""] }
ArrayObject ==
  <<12>> \o <<1, 101, ArrayFlag + Uint8, 0>> \o <<1, 103, ArrayFlag + Uint32, 4, 6, 0, 0, 0>>
    \o <<1, 115, ArrayFlag + String, 8, 4, 107, 0>>

\* { "n": -2i8, "m": -300i16, "t": true (byte 2), "o": { "z": false, "f": f64 of bits 1 } }
ScalarObject ==
  <<16>> \o <<1, 110, Int8, 254>> \o <<1, 109, Int16, 212, 254>> \o <<1, 116, Bool, 2>>
    \o <<1, 111, Object, 8>> \o <<1, 122, Bool, 0>> \o <<1, 102, Double, 1, 0, 0, 0, 0, 0, 0, 0>>

\* { "i": 5i64, "j": 6i32, "k": 513u16 }
KindsObject ==
  <<12>> \o <<1, 105, Int64, 5, 0, 0, 0, 0, 0, 0, 0>> \o <<1, 106, Int32, 6, 0, 0, 0>>
    \o <<1, 107, Uint16, 1, 2>>

\* { "b": ["hi"], "c": [ { "d": true } ] }: the fields "b" and "c" of the mixed
\* object with the array bit set and a declared length of 1
SingletonObject ==
  <<8>> \o <<1, 98, ArrayFlag + String, 4, 8, 104, 105>>
    \o <<1, 99, ArrayFlag + Object, 4, 4, 1, 100, Bool, 1>>

WellFormed == {Magic \o FooObject, Magic \o MixedObject, Magic \o NestedObject,
               Magic \o ArrayObject, Magic \o ScalarObject, Magic \o KindsObject,
               Magic \o SingletonObject}

\* Every cut of a well-formed input MaxCut bytes or fewer before its end
MaxCut == 2
\* and every cut of the mixed object after the version byte
Truncated ==
  {SubSeq(e, 1, Len(e) - k) : e \in WellFormed, k \in 1..MaxCut}
    \cup {SubSeq(Magic \o MixedObject, 1, k) : k \in Len(Magic)..(Len(Magic \o MixedObject) - 1)}

Malformed ==
  { <<1, 17, 1, 1>>,                                   \* fewer than 8 bytes
    <<1, 17, 1, 1, 1, 1, 2, 2, 1>> \o FooObject,       \* a wrong magic
    HEADER,                                            \* no version byte
    HEADER \o <<2>> \o FooObject,                      \* version 2
    Magic \o <<8, 0, 1, 97, Uint8, 1>>,                \* a key of length 0
    Magic \o <<8, 1, 97, Uint8, 1, 0, 1, 98, Uint8, 1>>, \* the second key of length 0
    Magic \o <<8, 1, 97, 13, 1, 1, 98, Uint8, 1>>,     \* type code 13
    Magic \o <<8, 1, 97, Uint8, 1>> }                  \* two fields declared, one present

\* A well-formed object with a byte after it
Trailing == {Magic \o NestedObject \o <<255>>}

\* The largest count the model writes as a four-byte varint, and its bytes
HugeCount == 2 ^ 29 - 1
HugeVarint == <<254, 255, 255, 127>>
\* An object that declares HugeCount fields, and an object whose field "a" is an
\* array that declares HugeCount elements, and one whose field is such an object
Huge ==
  { Magic \o HugeVarint \o <<1, 97, Uint8, 3>>,
    Magic \o <<4, 1, 97, ArrayFlag + Uint8>> \o HugeVarint \o <<7, 9>>,
    Magic \o <<4, 1, 97, Object>> \o HugeVarint \o <<1, 98, Uint8, 3>> }

Inputs == WellFormed \cup Truncated \cup Malformed \cup Trailing \cup Huge

(***************************************************************************)
(* lib.rs: Epee, EpeeEntry, FieldIterator, ArrayIterator                   *)
(***************************************************************************)
\* The stack of a decoder that does not exist yet
NoStack ==
  [types |-> [i \in 1..PackedLen |-> 0], amounts |-> [i \in 1..MAX_OBJECT_DEPTH |-> 1],
   depth |-> 0]

\* The caller walks a container item by item only when it declares at most MaxItems
\* items (it can always drop it)
MaxItems == 4

\* What a next() returns at the end of the iteration (Option::None)
Nothing == Err("Nothing", 0)

\* A cursor: an EpeeEntry ("entry": kind, len), a FieldIterator ("fields": len) or an
\* ArrayIterator ("array": kind, len). Two fields are history, not program state:
\* `start`, the byte offset at which the cursor's value begins, and `count`, the
\* number of items the value was declared with.
Cursor(type, kind, len, start, count) ==
  [type |-> type, kind |-> kind, len |-> len, start |-> start, count |-> count]
NoCursor == Cursor("none", 0, 0, 0, 0)

Top == IF cursors = <<>> THEN NoCursor ELSE cursors[Len(cursors)]
Below == SubSeq(cursors, 1, Len(cursors) - 1)
Pre == [pos |-> pos, stack |-> stack, error |-> error, clean |-> clean]

\* The record of an operation: its name, what it returned, the bytes it returned
\* (a key, a scalar's bytes, a string), the kind a getter asked for (the length
\* to_fixed_len_str asked for), the decoder before it, the cursor it was called on,
\* the value a typed getter returned
\* A decoder run a second time keeps, next to the record of the last operation, what
\* the operations of the first run left (`first`) and what those of the run under
\* way left (`log`): for each operation what it returned and the decoder after it.
\* `mode` is "single" for a decoder run once, which keeps neither.
Observation ==
  [op |-> last.op, kind |-> last.kind, res |-> last.res, val |-> last.val, value |-> last.value,
   pos |-> pos, stack |-> stack, error |-> error, cursors |-> cursors]

Op(op, res, val) ==
  [op |-> op, res |-> res, val |-> val, kind |-> 0, pre |-> Pre, cur |-> Top, value |-> 0,
   mode |-> last.mode, first |-> last.first,
   log |-> IF last.mode = "single" THEN <<>> ELSE Append(last.log, Observation)]

\* The record before any operation
InitialOp ==
  [op |-> "init", res |-> Ok, val |-> <<>>, kind |-> 0,
   pre |-> [pos |-> 0, stack |-> NoStack, error |-> NoError, clean |-> TRUE],
   cur |-> NoCursor, value |-> 0, mode |-> "single", first |-> <<>>, log |-> <<>>]

Returned(res) == clean' = (clean /\ res \in {Ok, Nothing})

Init ==
  /\ encoding \in Inputs
  /\ pos = 0
  /\ phase = "pending"
  /\ stack = NoStack
  /\ error = NoError
  /\ cursors = <<>>
  /\ last = InitialOp
  /\ clean = TRUE
  /\ taken = 0

\* Epee::new without the comparison of the version byte
NewResultAnyVersion ==
  The({ IF header.res # Ok THEN header.res
        ELSE IF header.val # HEADER THEN InvalidHeader
        ELSE The({ IF version.res # Ok THEN InvalidVersion(-1) ELSE Ok
                   : version \in {read_byte(header.pos)} })
        : header \in {read_into_slice(0, Len(HEADER))} })

\* What Epee::new returns: Ok, or the error of the header or version check
NewResult ==
  The({ IF header.res # Ok THEN header.res
        ELSE IF header.val # HEADER THEN InvalidHeader
        ELSE The({ IF version.res # Ok THEN InvalidVersion(-1)
                   ELSE IF version.val # VERSION THEN InvalidVersion(version.val)
                   ELSE Ok
                   : version \in {read_byte(header.pos)} })
        : header \in {read_into_slice(0, Len(HEADER))} })

\* Epee::new
New ==
  /\ phase = "pending"
  /\ \E r \in {NewResult} :
         /\ last' = Op("new", r, <<>>)
         /\ Returned(r)
         /\ IF r = Ok
              THEN /\ phase' = "open"
                   /\ pos' = Len(HEADER) + 1
                   /\ stack' = root_object
              ELSE /\ phase' = "failed"
                   /\ UNCHANGED <<pos, stack>>
  /\ UNCHANGED <<encoding, error, cursors, taken>>

\* The caller stops calling entry() once it has been handed more than MaxRoots entries
MaxRoots == 1

\* The guard of Epee::entry
EntryRefused == depth(stack) # 1 \/ error # NoError

\* entry() that reads the byte at the position as it hands the root entry out
EpeeEntryReading ==
  /\ phase = "open"
  /\ cursors = <<>>
  /\ taken <= MaxRoots
  /\ IF EntryRefused
       THEN /\ last' = Op("entry", EpeeReuse, <<>>)
            /\ Returned(EpeeReuse)
            /\ UNCHANGED <<cursors, taken, pos>>
       ELSE /\ last' = Op("entry", Ok, <<>>)
            /\ Returned(Ok)
            /\ cursors' = <<Cursor("entry", Object, 1, pos, 1)>>
            /\ taken' = taken + 1
            /\ pos' = read_byte(pos).pos
  /\ UNCHANGED <<encoding, phase, stack, error>>

\* Epee::entry, callable whenever no cursor borrows the decoder
EpeeEntry ==
  /\ phase = "open"
  /\ cursors = <<>>
  /\ taken <= MaxRoots
  /\ IF EntryRefused
       THEN /\ last' = Op("entry", EpeeReuse, <<>>)
            /\ Returned(EpeeReuse)
            /\ UNCHANGED <<cursors, taken>>
       ELSE /\ last' = Op("entry", Ok, <<>>)
            /\ Returned(Ok)
            /\ cursors' = <<Cursor("entry", Object, 1, pos, 1)>>
            /\ taken' = taken + 1
  /\ UNCHANGED <<encoding, pos, phase, stack, error>>

\* kind() that pops the slot it reports
KindPopping ==
  /\ Top.type = "entry"
  /\ last' = [Op("kind", Ok, IF last.op = "kind" THEN <<last.value>> ELSE <<>>) EXCEPT
                !.value = Top.kind]
  /\ Returned(Ok)
  /\ stack' = pop(stack).stack
  /\ UNCHANGED <<encoding, pos, phase, error, cursors, taken>>

\* EpeeEntry::kind: self.kind, the entry borrowed and not consumed. The record keeps
\* what the call right before returned when that was kind() too
Kind ==
  /\ Top.type = "entry"
  /\ last' = [Op("kind", Ok, IF last.op = "kind" THEN <<last.value>> ELSE <<>>) EXCEPT
                !.value = Top.kind]
  /\ Returned(Ok)
  /\ UNCHANGED <<encoding, pos, phase, stack, error, cursors, taken>>

\* EpeeEntry::len: self.len, likewise
EntryLen ==
  /\ Top.type = "entry"
  /\ last' = [Op("len", Ok, IF last.op = "len" THEN <<last.value>> ELSE <<>>) EXCEPT
                !.value = Top.len]
  /\ Returned(Ok)
  /\ UNCHANGED <<encoding, pos, phase, stack, error, cursors, taken>>

\* EpeeEntry::fields: root.take() comes first, so on every error the entry is
\* dropped without its root and skips nothing
\* fields() without the check of the kind and the len
FieldsAnyKind ==
  IF error # NoError THEN [stack |-> stack, pos |-> pos, res |-> error, len |-> 0]
  ELSE The({ IF r.res # Ok THEN [stack |-> r.stack, pos |-> r.pos, res |-> r.res, len |-> 0]
             ELSE IF r.out.tag # "Object"
               THEN [stack |-> r.stack, pos |-> r.pos, res |-> InternalError, len |-> 0]
             ELSE [stack |-> r.stack, pos |-> r.pos, res |-> Ok, len |-> r.out.fields]
             : r \in {single_step(stack, pos)} })

FieldsResult ==
  IF error # NoError THEN [stack |-> stack, pos |-> pos, res |-> error, len |-> 0]
  ELSE IF Top.kind # Object \/ Top.len # 1
    THEN [stack |-> stack, pos |-> pos, res |-> TypeError, len |-> 0]
  ELSE The({ IF r.res # Ok THEN [stack |-> r.stack, pos |-> r.pos, res |-> r.res, len |-> 0]
             ELSE IF r.out.tag # "Object"
               THEN [stack |-> r.stack, pos |-> r.pos, res |-> InternalError, len |-> 0]
             ELSE [stack |-> r.stack, pos |-> r.pos, res |-> Ok, len |-> r.out.fields]
             : r \in {single_step(stack, pos)} })

Fields ==
  /\ Top.type = "entry"
  /\ \E r \in {FieldsResult} :
         /\ last' = Op("fields", r.res, <<>>)
         /\ Returned(r.res)
         /\ stack' = r.stack
         /\ pos' = r.pos
         /\ cursors' = IF r.res = Ok THEN Below \o <<Cursor("fields", Entry, r.len, Top.start, r.len)>>
                       ELSE Below
  /\ UNCHANGED <<encoding, phase, error, taken>>

\* EpeeEntry::iterate: no I/O; with an error stored the entry is dropped without its root
Iterate ==
  /\ Top.type = "entry"
  /\ last' = Op("iterate", IF error # NoError THEN error ELSE Ok, <<>>)
  /\ Returned(IF error # NoError THEN error ELSE Ok)
  /\ cursors' = IF error # NoError THEN Below
                ELSE Below \o <<Cursor("array", Top.kind, Top.len, Top.start, Top.len)>>
  /\ UNCHANGED <<encoding, pos, phase, stack, error, taken>>

\* EpeeEntry::to_primitive(kind, [0; size]): the kind and len are checked before
\* root.take(), so a TypeError drops the entry with its root and the drop skips the value
\* What a getter returns when the entry is not of the kind asked for: TypeError, the
\* entry dropped with its root
Mismatch ==
  The({ [stack |-> dropped.stack, pos |-> dropped.pos, error |-> dropped.error,
         res |-> TypeError, val |-> <<>>]
        : dropped \in {DropLoop(stack, pos, error, Top.len)} })

\* to_primitive that checks the kind and not the len
ToPrimitiveAnyLen(kind) ==
  IF Top.kind # kind THEN Mismatch
  ELSE IF error # NoError
    THEN [stack |-> stack, pos |-> pos, error |-> error, res |-> error, val |-> <<>>]
  ELSE The({ [stack |-> pop(stack).stack, pos |-> read.pos, error |-> error,
              res |-> read.res, val |-> read.val]
             : read \in {read_into_slice(pos, SizeOf(kind))} })

ToPrimitiveResult(kind) ==
  IF Top.kind # kind \/ Top.len # 1 THEN Mismatch
  ELSE IF error # NoError
    THEN [stack |-> stack, pos |-> pos, error |-> error, res |-> error, val |-> <<>>]
  ELSE The({ [stack |-> pop(stack).stack, pos |-> read.pos, error |-> error,
              res |-> read.res, val |-> read.val]
             : read \in {read_into_slice(pos, SizeOf(kind))} })

\* The bytes with every bit flipped
Complement(bytes) == [i \in 1..Len(bytes) |-> 255 - bytes[i]]

\* The getters with every integer read as unsigned
FromLeBytesUnsigned(kind, bytes) ==
  IF kind = Bool THEN bytes[1] # 0 ELSE LittleEndian(bytes, Len(bytes))

\* What a getter makes of the bytes to_primitive filled: iN::from_le_bytes (two's
\* complement, a set top bit giving -(complement) - 1), uN::from_le_bytes, buf[0] for
\* to_u8, buf[0] != 0 for to_bool; f64::from_le_bytes is given as the float's bits
from_le_bytes(kind, bytes) ==
  IF kind = Bool THEN bytes[1] # 0
  ELSE IF kind \in {Int64, Int32, Int16, Int8} /\ bytes[Len(bytes)] >= 128
    THEN 0 - LittleEndian(Complement(bytes), Len(bytes)) - 1
  ELSE LittleEndian(bytes, Len(bytes))

\* to_i64 .. to_u8, to_f64, to_bool
ToPrimitive(kind) ==
  /\ Top.type = "entry"
  /\ \E r \in {ToPrimitiveResult(kind)} :
         /\ last' = [Op("to_primitive", r.res, r.val) EXCEPT
                        !.kind = kind,
                        !.value = IF r.res = Ok THEN from_le_bytes(kind, r.val) ELSE 0]
         /\ Returned(r.res)
         /\ stack' = r.stack
         /\ pos' = r.pos
         /\ error' = r.error
  /\ cursors' = Below
  /\ UNCHANGED <<encoding, phase, taken>>

\* EpeeEntry::to_str
ToStrResult ==
  IF Top.kind # String \/ Top.len # 1 THEN Mismatch
  ELSE IF error # NoError
    THEN [stack |-> stack, pos |-> pos, error |-> error, res |-> error, val |-> <<>>]
  ELSE The({ [stack |-> pop(stack).stack, pos |-> read.pos, error |-> error,
              res |-> read.res, val |-> read.val]
             : read \in {read_str(pos)} })

\* to_fixed_len_str that takes every string of len bytes or more
ToFixedLenStrAtLeast(len) ==
  The({ IF str.res = Ok /\ Len(str.val) < len
          THEN [str EXCEPT !.res = TypeError, !.val = <<>>]
          ELSE str
        : str \in {ToStrResult} })

\* EpeeEntry::to_fixed_len_str(len): to_str()?, then TypeError unless the length is len
ToFixedLenStrResult(len) ==
  The({ IF str.res = Ok /\ Len(str.val) # len
          THEN [str EXCEPT !.res = TypeError, !.val = <<>>]
          ELSE str
        : str \in {ToStrResult} })

ToStr ==
  /\ Top.type = "entry"
  /\ \E r \in {ToStrResult} :
         /\ last' = Op("to_str", r.res, r.val)
         /\ Returned(r.res)
         /\ stack' = r.stack
         /\ pos' = r.pos
         /\ error' = r.error
  /\ cursors' = Below
  /\ UNCHANGED <<encoding, phase, taken>>

ToFixedLenStr(len) ==
  /\ Top.type = "entry"
  /\ \E r \in {ToFixedLenStrResult(len)} :
         /\ last' = [Op("to_fixed_len_str", r.res, r.val) EXCEPT !.kind = len]
         /\ Returned(r.res)
         /\ stack' = r.stack
         /\ pos' = r.pos
         /\ error' = r.error
  /\ cursors' = Below
  /\ UNCHANGED <<encoding, phase, taken>>

\* FieldIterator::next: the stored error, None at the end, or one single_step that
\* must give an Entry; self.len is decremented before the step
\* FieldIterator::next that leaves self.len as it was
FieldNextKeepsLen ==
  IF error # NoError
    THEN [stack |-> stack, pos |-> pos, res |-> error, len |-> Top.len, out |-> StepNone]
  ELSE IF Top.len = 0
    THEN [stack |-> stack, pos |-> pos, res |-> Nothing, len |-> 0, out |-> StepNone]
  ELSE The({ [stack |-> r.stack, pos |-> r.pos, len |-> Top.len,
              res |-> IF r.res # Ok THEN r.res
                      ELSE IF r.out.tag # "Entry" THEN InternalError ELSE Ok,
              out |-> IF r.res = Ok /\ r.out.tag = "Entry" THEN r.out ELSE StepNone]
             : r \in {single_step(stack, pos)} })

FieldNextResult ==
  IF error # NoError
    THEN [stack |-> stack, pos |-> pos, res |-> error, len |-> Top.len, out |-> StepNone]
  ELSE IF Top.len = 0
    THEN [stack |-> stack, pos |-> pos, res |-> Nothing, len |-> 0, out |-> StepNone]
  ELSE The({ [stack |-> r.stack, pos |-> r.pos, len |-> Top.len - 1,
              res |-> IF r.res # Ok THEN r.res
                      ELSE IF r.out.tag # "Entry" THEN InternalError ELSE Ok,
              out |-> IF r.res = Ok /\ r.out.tag = "Entry" THEN r.out ELSE StepNone]
             : r \in {single_step(stack, pos)} })

FieldNext ==
  /\ Top.type = "fields"
  /\ Top.len <= MaxItems
  /\ \E r \in {FieldNextResult} :
         /\ last' = Op("field_next", r.res, r.out.key)
         /\ Returned(r.res)
         /\ stack' = r.stack
         /\ pos' = r.pos
         /\ cursors' = Below \o <<[Top EXCEPT !.len = r.len]>>
                         \o IF r.res = Ok
                              THEN <<Cursor("entry", r.out.kind, r.out.len, r.pos, r.out.len)>>
                              ELSE <<>>
  /\ UNCHANGED <<encoding, phase, error, taken>>

\* ArrayIterator::next: the stored error, None at the end, or an entry of the
\* array's kind and len 1; no I/O
\* ArrayIterator::next that never returns None
ArrayNextNoEnd == IF error # NoError THEN error ELSE Ok

ArrayNextResult ==
  IF error # NoError THEN error ELSE IF Top.len = 0 THEN Nothing ELSE Ok

\* ArrayIterator::next that pops the slot of the element it yields
ArrayNextEager ==
  /\ Top.type = "array"
  /\ Top.len <= MaxItems
  /\ last' = Op("array_next", ArrayNextResult, <<>>)
  /\ Returned(ArrayNextResult)
  /\ cursors' = IF ArrayNextResult = Ok
                  THEN Below \o <<[Top EXCEPT !.len = @ - 1],
                                  Cursor("entry", Top.kind, 1, pos, 1)>>
                  ELSE cursors
  /\ stack' = IF ArrayNextResult = Ok THEN pop(stack).stack ELSE stack
  /\ UNCHANGED <<encoding, pos, phase, error, taken>>

ArrayNext ==
  /\ Top.type = "array"
  /\ Top.len <= MaxItems
  /\ last' = Op("array_next", ArrayNextResult, <<>>)
  /\ Returned(ArrayNextResult)
  /\ cursors' = IF ArrayNextResult = Ok
                  THEN Below \o <<[Top EXCEPT !.len = @ - 1],
                                  Cursor("entry", Top.kind, 1, pos, 1)>>
                  ELSE cursors
  /\ UNCHANGED <<encoding, pos, phase, stack, error, taken>>

\* A drop written with `loop` and a test at its end: one step at least
DroppedOnceAtLeast ==
  DropLoop(stack, pos, error, IF Top.len = 0 THEN 1 ELSE Top.len)

\* The innermost cursor goes out of scope: Drop for EpeeEntry, FieldIterator or
\* ArrayIterator skips what is left of it and stores the error of a failed skip
Dropped == DropLoop(stack, pos, error, Top.len)

\* A drop that skips what is left or leaves it, as it happens
DropEither ==
  /\ cursors # <<>>
  /\ \E r \in {Dropped, [stack |-> stack, pos |-> pos, error |-> error]} :
         /\ last' = Op("drop", IF r.error # error THEN r.error ELSE Ok, <<>>)
         /\ Returned(IF r.error # error THEN r.error ELSE Ok)
         /\ stack' = r.stack
         /\ pos' = r.pos
         /\ error' = r.error
  /\ cursors' = Below
  /\ UNCHANGED <<encoding, phase, taken>>

Drop ==
  /\ cursors # <<>>
  /\ \E r \in {Dropped} :
         /\ last' = Op("drop", IF r.error # error THEN r.error ELSE Ok, <<>>)
         /\ Returned(IF r.error # error THEN r.error ELSE Ok)
         /\ stack' = r.stack
         /\ pos' = r.pos
         /\ error' = r.error
  /\ cursors' = Below
  /\ UNCHANGED <<encoding, phase, taken>>

\* The string lengths a caller asks to_fixed_len_str for
FixedLens == {0, 2}

\* The caller keeps at most MaxCursors cursors alive at a time
MaxCursors == 5

Next ==
  \/ New
  \/ EpeeEntry
  \/ Kind
  \/ EntryLen
  \/ Fields
  \/ Iterate
  \/ \E kind \in ScalarKinds : ToPrimitive(kind)
  \/ ToStr
  \/ \E len \in FixedLens : ToFixedLenStr(len)
  \/ Len(cursors) < MaxCursors /\ FieldNext
  \/ Len(cursors) < MaxCursors /\ ArrayNext
  \/ Drop

Spec == Init /\ [][Next]_vars

(***************************************************************************)
(* Deeply nested inputs, walked by a caller that descends with fields(),   *)
(* iterate() and next() and, once it drops a cursor or is returned an      *)
(* error, only abandons what it holds.                                     *)
(***************************************************************************)
\* n objects of one field "a" of type object, one inside the other, around an empty object
RECURSIVE ChainObject(_)
ChainObject(n) == IF n = 0 THEN <<0>> ELSE <<4, 1, 97, Object>> \o ChainObject(n - 1)

\* n objects { "a": [inner, {}], "b": 7u8 }, one inside the other, around an empty
\* object: every level has a further array element and a further field
RECURSIVE WideObject(_)
WideObject(n) ==
  IF n = 0 THEN <<0>>
  ELSE <<8, 1, 97, ArrayFlag + Object, 8>> \o WideObject(n - 1) \o <<0, 1, 98, Uint8, 7>>

\* How many objects the chain and the wide input nest around their innermost object
ChainDepth == 103
WideDepth == 52

ChainInput == Magic \o ChainObject(ChainDepth)
WideInput == Magic \o WideObject(WideDepth)
\* Two slots a level: the deepest wide input the stack has room for
FitInput == Magic \o WideObject(EPEE_LIB_MAX_OBJECT_DEPTH \div 2)

\* The wide input whose innermost, empty object is met with the stack full
EdgeInput == Magic \o WideObject(MAX_OBJECT_DEPTH \div 2)

InitDeep ==
  /\ encoding \in {ChainInput, WideInput, FitInput, EdgeInput}
  /\ pos = 0
  /\ phase = "pending"
  /\ stack = NoStack
  /\ error = NoError
  /\ cursors = <<>>
  /\ last = InitialOp
  /\ clean = TRUE
  /\ taken = 0

Descending == clean /\ last.op # "drop"

NextDeep ==
  \/ New
  \/ EpeeEntry
  \/ Fields
  \/ Top.len # 1 /\ Iterate
  \/ Descending /\ FieldNext
  \/ Descending /\ ArrayNext
  \/ Drop

SpecDeep == InitDeep /\ [][NextDeep]_vars

(***************************************************************************)
(* Two decoders on the same bytes: the decoder is run for at most MaxOps    *)
(* operations, then a second decoder is built from the same bytes and is   *)
(* driven by the same operations.                                          *)
(***************************************************************************)
MaxOps == 6

TwinInputs ==
  { Magic \o ScalarObject, Magic \o ArrayObject,
    SubSeq(Magic \o ScalarObject, 1, Len(Magic) + 4) }

\* The kinds the caller of the two runs asks the typed getters for
TwinKinds == {Int8, Bool}

InitTwin ==
  /\ encoding \in TwinInputs
  /\ pos = 0
  /\ phase = "pending"
  /\ stack = NoStack
  /\ error = NoError
  /\ cursors = <<>>
  /\ last = [InitialOp EXCEPT !.mode = "record"]
  /\ clean = TRUE
  /\ taken = 0

\* The first run is over: a second decoder on the same bytes
Rewind ==
  /\ last.mode = "record"
  /\ last.op # "init"
  /\ pos' = 0
  /\ phase' = "pending"
  /\ stack' = NoStack
  /\ error' = NoError
  /\ cursors' = <<>>
  /\ last' = [InitialOp EXCEPT !.mode = "replay", !.first = Append(last.log, Observation)]
  /\ clean' = TRUE
  /\ taken' = 0
  /\ UNCHANGED encoding

\* The first run may go on; the second run has operations of the first left to repeat
Recording == last.mode = "record" /\ Len(last.log) < MaxOps
Replaying == last.mode = "replay" /\ Len(last.log) + 1 < Len(last.first)

\* The operation just done by the second run is the one the first run did at this
\* point: the same method with the same argument
SameOperation ==
  /\ last'.op = last.first[Len(last'.log) + 1].op
  /\ last'.kind = last.first[Len(last'.log) + 1].kind

NextTwin ==
  \/ Rewind
  \/ Recording /\ New
  \/ Recording /\ EpeeEntry
  \/ Recording /\ Kind
  \/ Recording /\ EntryLen
  \/ Recording /\ Fields
  \/ Recording /\ Iterate
  \/ Recording /\ \E kind \in TwinKinds : ToPrimitive(kind)
  \/ Recording /\ ToStr
  \/ Recording /\ \E len \in FixedLens : ToFixedLenStr(len)
  \/ Recording /\ FieldNext
  \/ Recording /\ ArrayNext
  \/ Recording /\ Drop
  \/ Replaying /\ New /\ SameOperation
  \/ Replaying /\ EpeeEntry /\ SameOperation
  \/ Replaying /\ Kind /\ SameOperation
  \/ Replaying /\ EntryLen /\ SameOperation
  \/ Replaying /\ Fields /\ SameOperation
  \/ Replaying /\ Iterate /\ SameOperation
  \/ Replaying /\ (\E kind \in TwinKinds : ToPrimitive(kind)) /\ SameOperation
  \/ Replaying /\ ToStr /\ SameOperation
  \/ Replaying /\ (\E len \in FixedLens : ToFixedLenStr(len)) /\ SameOperation
  \/ Replaying /\ FieldNext /\ SameOperation
  \/ Replaying /\ ArrayNext /\ SameOperation
  \/ Replaying /\ Drop /\ SameOperation

SpecTwin == InitTwin /\ [][NextTwin]_vars

(***************************************************************************)
(* read_varint on its own: the inputs are varints of every width that holds *)
(* the value, whole, followed by a byte, and cut short.                    *)
(***************************************************************************)
\* The values encoded, and the widths by tag
VarintValues == {0, 1, 63, 64, 300, 16383, 16384, 70000}
Widths == <<1, 2, 4, 8>>

\* The varint of value v with tag t: 4 v + t in Widths[t + 1] little-endian bytes
\* (the values are below 2^29, so the bytes after the fourth are zero)
EncodeVarint(v, t) ==
  [i \in 1..Widths[t + 1] |-> IF i > 4 THEN 0 ELSE ((4 * v + t) \div (256 ^ (i - 1))) % 256]

\* The tags of the widths that hold v
TagsFor(v) == {t \in 0..3 : v < 2 ^ (IF t = 3 THEN 29 ELSE 8 * Widths[t + 1] - 2)}

VarintInputs ==
  UNION { { EncodeVarint(v, t), EncodeVarint(v, t) \o <<255>> }
            \cup { SubSeq(EncodeVarint(v, t), 1, k) : k \in 0..(Widths[t + 1] - 1) }
          : <<v, t>> \in { <<x, y>> \in VarintValues \X (0..3) : y \in TagsFor(x) } }

InitVarint ==
  /\ encoding \in VarintInputs
  /\ pos = 0
  /\ phase = "varint"
  /\ stack = NoStack
  /\ error = NoError
  /\ cursors = <<>>
  /\ last = InitialOp
  /\ clean = TRUE
  /\ taken = 0

\* read_varint applied to the input
ReadVarint ==
  /\ phase = "varint"
  /\ \E r \in {read_varint(pos)} :
         /\ last' = [Op("read_varint", r.res, <<>>) EXCEPT !.value = r.val]
         /\ Returned(r.res)
         /\ pos' = r.pos
  /\ phase' = "read"
  /\ UNCHANGED <<encoding, stack, error, cursors, taken>>

NextVarint == ReadVarint

SpecVarint == InitVarint /\ [][NextVarint]_vars

(***************************************************************************)
(* Type::read on its own: every tag byte, alone and followed by the bytes   *)
(* in TypeTails.                                                           *)
(***************************************************************************)
\* What follows the tag byte: nothing, the varint 2 in one byte, the varint 3 in
\* two bytes, and the varint 2 followed by a byte
TypeTails == {<<>>, <<8>>, <<13, 0>>, <<8, 255>>}

TypeInputs == {<<>>} \cup { <<tag>> \o tail : tag \in 0..255, tail \in TypeTails }

InitType ==
  /\ encoding \in TypeInputs
  /\ pos = 0
  /\ phase = "type"
  /\ stack = NoStack
  /\ error = NoError
  /\ cursors = <<>>
  /\ last = InitialOp
  /\ clean = TRUE
  /\ taken = 0

\* Type::read applied to the input
ReadType ==
  /\ phase = "type"
  /\ \E r \in {TypeRead(pos)} :
         /\ last' = [Op("type_read", r.res, <<>>) EXCEPT !.kind = r.kind, !.value = r.len]
         /\ Returned(r.res)
         /\ pos' = r.pos
  /\ phase' = "read"
  /\ UNCHANGED <<encoding, stack, error, cursors, taken>>

NextType == ReadType

SpecType == InitType /\ [][NextType]_vars

(***************************************************************************)
(* stack.rs: PackedTypes::set and PackedTypes::get applied to arrays of    *)
(* tags                                                                    *)
(***************************************************************************)
\* The array whose tag at index j is (j + shift) % 13: every tag next to every other
PackedPattern(shift) ==
  [b \in 1..PackedLen |->
     ((2 * (b - 1) + shift) % (Object + 1)) + 16 * ((2 * (b - 1) + 1 + shift) % (Object + 1))]
PackedShifts == Entry..Object
PackedIndices == 0..(MAX_OBJECT_DEPTH - 1)

InitPacked ==
  /\ encoding = <<>>
  /\ pos = 0
  /\ phase = "packed"
  /\ \E shift \in PackedShifts : stack = [NoStack EXCEPT !.types = PackedPattern(shift)]
  /\ error = NoError
  /\ cursors = <<>>
  /\ last = InitialOp
  /\ clean = TRUE
  /\ taken = 0

\* PackedTypes::set(i, kind) applied to the array
PackedSetStep(i, kind) ==
  /\ phase = "packed"
  /\ last' = [Op("set", Ok, <<i>>) EXCEPT !.kind = kind]
  /\ stack' = [stack EXCEPT !.types = PackedSet(stack.types, i, kind)]
  /\ phase' = "set"
  /\ UNCHANGED <<encoding, pos, error, cursors, clean, taken>>

\* PackedTypes::get(j) applied to the array after the set, j being the index set or
\* the one that shares its byte
PackedGetStep(j) ==
  /\ phase = "set"
  /\ j \div 2 = last.val[1] \div 2
  /\ last' = [last EXCEPT !.op = "get", !.val = <<last.val[1], j>>,
                          !.value = PackedGet(stack.types, j)]
  /\ phase' = "got"
  /\ UNCHANGED <<encoding, pos, stack, error, cursors, clean, taken>>

NextPacked ==
  \/ \E i \in PackedIndices : \E kind \in Entry..Object : PackedSetStep(i, kind)
  \/ \E j \in PackedIndices : PackedGetStep(j)

SpecPacked == InitPacked /\ [][NextPacked]_vars

(***************************************************************************)
(* Properties                                                              *)
(***************************************************************************)
\* The decoder as the three fields an operation can change
Decoder(s, p, err) == [stack |-> s, pos |-> p, error |-> err]

\* The explicit read of the n fields a FieldIterator has left: next(), then the
\* entry it yielded dropped, n times
RECURSIVE ReadAll(_, _)
ReadAll(m, n) ==
  IF n = 0 \/ m.error # NoError THEN m
  ELSE The({ IF r.res # Ok THEN Decoder(r.stack, r.pos, r.res)
             ELSE IF r.out.tag # "Entry" THEN Decoder(r.stack, r.pos, InternalError)
             ELSE ReadAll(DropLoop(r.stack, r.pos, NoError, r.out.len), n - 1)
             : r \in {single_step(m.stack, m.pos)} })

\* The explicit iteration of the n elements an ArrayIterator has left: next(), then
\* the entry of len 1 it yielded dropped, n times
RECURSIVE IterateAll(_, _)
IterateAll(m, n) ==
  IF n = 0 \/ m.error # NoError THEN m
  ELSE IterateAll(DropLoop(m.stack, m.pos, NoError, 1), n - 1)

\* The wire format, read without the decoder: the offset after a value of a kind,
\* after n values of a kind, and after n fields (key length, key, type byte, the
\* array length when the array bit is set, the values)
RECURSIVE ValueEnd(_, _)
RECURSIVE ItemsEnd(_, _, _)
RECURSIVE FieldsEnd(_, _)
ValueEnd(p, kind) ==
  IF kind = String THEN The({ v.pos + v.val : v \in {read_varint(p)} })
  ELSE IF kind = Object THEN The({ FieldsEnd(v.pos, v.val) : v \in {read_varint(p)} })
  ELSE p + SizeOf(kind)
ItemsEnd(p, kind, n) ==
  IF n = 0 THEN p ELSE ItemsEnd(ValueEnd(p, kind), kind, n - 1)
FieldsEnd(p, n) ==
  IF n = 0 THEN p
  ELSE The({ FieldsEnd(IF encoding[q] >= ArrayFlag
                         THEN The({ ItemsEnd(v.pos, encoding[q] - ArrayFlag, v.val)
                                    : v \in {read_varint(q)} })
                         ELSE ValueEnd(q, encoding[q]),
                       n - 1)
             : q \in {p + encoding[p + 1] + 2} })

\* The last operation was the drop of a cursor of the given type, on a well-formed
\* input, no operation before it having returned an error
CleanDropOf(type) ==
  /\ last.op = "drop"
  /\ last.cur.type = type
  /\ last.pre.clean
  /\ encoding \in WellFormed

\* C1: on a well-formed input, reading a prefix of an object's fields (each entry
\* yielded read or dropped) and then dropping the FieldIterator leaves the decoder
\* at the position and with the stack that the explicit read of every remaining
\* field leaves it
C1_PrefixThenDropIsFullRead ==
  CleanDropOf("fields") =>
    \E full \in {ReadAll(Decoder(last.pre.stack, last.pre.pos, NoError), last.cur.len)} :
        /\ full.error = NoError
        /\ error = NoError
        /\ pos = full.pos
        /\ Slots(stack) = Slots(full.stack)
        /\ pos = FieldsEnd(last.pre.pos, last.cur.len)

\* Two of the three fields of the mixed object were read, the iterator was dropped
\* with one field left, and the decoder is at the end of the input
C1_Witness ==
  /\ CleanDropOf("fields")
  /\ encoding = Magic \o MixedObject
  /\ last.cur.count = 3
  /\ last.cur.len = 1
  /\ last.pre.pos < pos
  /\ pos = Len(encoding)

\* C2: on a well-formed input, dropping an ArrayIterator after k < n of its n
\* elements were iterated leaves the position right after the bytes of all n
\* elements, and the stack as iterating the remaining elements leaves it
C2_ArrayDropConsumesAllElements ==
  CleanDropOf("array") =>
    \E rest \in {IterateAll(Decoder(last.pre.stack, last.pre.pos, NoError), last.cur.len)} :
        /\ error = NoError
        /\ pos = ItemsEnd(last.cur.start, last.cur.kind, last.cur.count)
        /\ rest.error = NoError
        /\ pos = rest.pos
        /\ Slots(stack) = Slots(rest.stack)

\* An array of two strings was dropped with no element iterated, and the decoder
\* moved over both
C2_Witness ==
  /\ CleanDropOf("array")
  /\ last.cur.kind = String
  /\ last.cur.count = 2
  /\ last.cur.len = 2
  /\ pos = last.cur.start + 3

\* The last operation ended the scope of an entry yielded by an iterator, and of
\* every cursor derived from it, returning Ok or TypeError
EntryConsumed ==
  /\ last.cur.type = "entry"
  /\ cursors # <<>>
  /\ last.op \in {"drop", "fields", "iterate", "to_primitive", "to_str", "to_fixed_len_str"}
  /\ last.res \in {Ok, TypeError}
  /\ ~(last.op \in {"fields", "iterate"} /\ last.res = Ok)
  /\ last.pre.clean
  /\ encoding \in WellFormed

\* C3: once an entry yielded by an iterator was consumed by drop, fields(),
\* iterate() or a typed getter, with success or TypeError, and nothing derived from it
\* is alive, the position and the stack are those of the entry fully skipped
C3_ConsumedEntryIsSkipped ==
  EntryConsumed =>
    \E skipped \in {DropLoop(last.pre.stack, last.pre.pos, NoError, last.cur.len)} :
        /\ pos = skipped.pos
        /\ Slots(stack) = Slots(skipped.stack)

\* The operations called on a cursor
CursorOps ==
  {"drop", "fields", "iterate", "to_primitive", "to_str", "to_fixed_len_str",
   "field_next", "array_next"}

\* C4: a fault an operation on a cursor meets and returns (other than the TypeError
\* of a getter, after which the drop of the entry may store a fault of its own) is
\* the error stored in the decoder's sticky error field
C4_ReturnedErrorIsStored ==
  (last.op \in CursorOps /\ last.res \notin {Ok, Nothing, TypeError}) => error = last.res

\* C5: an operation that finds the sticky error set changes neither the position
\* nor the stack
C5_FrozenOnceErrorSet ==
  last.pre.error # NoError => (pos = last.pre.pos /\ stack = last.pre.stack)

\* An iterator with items left, the stack not empty, was dropped with the error set
C5_Witness ==
  /\ last.pre.error # NoError
  /\ last.op = "drop"
  /\ last.cur.type # "entry"
  /\ last.cur.len > 0
  /\ depth(stack) > 0

\* C6: entry() hands out the root entry at most once
C6_RootHandedOutOnce == taken <= 1

\* The input starts with the magic and the version byte follows
GoodHeader ==
  /\ Len(encoding) > Len(HEADER)
  /\ SubSeq(encoding, 1, Len(HEADER)) = HEADER
  /\ encoding[Len(HEADER) + 1] = VERSION

\* The error Epee::new owes an input that is not GoodHeader
HeaderFault ==
  IF Len(encoding) < Len(HEADER) THEN Short(Len(HEADER))
  ELSE IF SubSeq(encoding, 1, Len(HEADER)) # HEADER THEN InvalidHeader
  ELSE IF Len(encoding) = Len(HEADER) THEN InvalidVersion(-1)
  ELSE InvalidVersion(encoding[Len(HEADER) + 1])

\* C7: Epee::new succeeds exactly when the first eight bytes are the magic and the
\* ninth is 1; otherwise it returns Short, InvalidHeader or InvalidVersion with the
\* byte observed, no decoder exists and nothing is ever decoded
C7_NewChecksHeaderAndVersion ==
  /\ phase = "open" => GoodHeader
  /\ phase = "failed" =>
       /\ ~GoodHeader
       /\ last.op = "new"
       /\ last.res = HeaderFault
       /\ pos = 0 /\ stack = NoStack /\ cursors = <<>> /\ taken = 0

\* Epee::new refused version 2, naming the byte
C7_Witness ==
  /\ phase = "failed"
  /\ Len(encoding) > Len(HEADER)
  /\ SubSeq(encoding, 1, Len(HEADER)) = HEADER
  /\ last.res = InvalidVersion(2)

\* C8: the stack depth never exceeds MAX_OBJECT_DEPTH; a push on a full stack
\* returns DepthLimitExceeded and leaves the stack as it was
C8_DepthBounded ==
  /\ depth(stack) <= MAX_OBJECT_DEPTH
  /\ (last.res = DepthLimitExceeded \/ error = DepthLimitExceeded) =>
       depth(stack) = MAX_OBJECT_DEPTH
  /\ (last.op = "fields" /\ last.res = DepthLimitExceeded) =>
       stack = pop(last.pre.stack).stack
  /\ depth(stack) = MAX_OBJECT_DEPTH =>
       \A kind \in {Entry, Uint8, Object} : \A amount \in 1..2 :
          push(stack, kind, amount) = [stack |-> stack, res |-> DepthLimitExceeded]

\* fields() on an object that has fields met the full stack
C8_Witness ==
  /\ depth(stack) = MAX_OBJECT_DEPTH
  /\ last.op = "fields"
  /\ last.res = DepthLimitExceeded
  /\ encoding[last.pre.pos + 1] # 0

\* The decoder is past the first ChainInput level beyond the bound
BeyondBound == pos > Len(Magic) + 4 * MAX_OBJECT_DEPTH

\* C9 as stated: a chain of one-field objects nested more deeply than the bound
\* fails with DepthLimitExceeded at the first level beyond the bound, so the decoder
\* is never past that level without an operation having returned an error
C9_ChainBeyondBoundFails ==
  (encoding = ChainInput /\ ChainDepth > MAX_OBJECT_DEPTH /\ BeyondBound) => ~clean

\* C9: on a chain of one-field objects the stack depth never exceeds 1 and no
\* operation returns or stores DepthLimitExceeded, however deep the chain
C9_ChainNeverDeep ==
  encoding = ChainInput =>
    /\ depth(stack) <= 1
    /\ last.res # DepthLimitExceeded
    /\ error # DepthLimitExceeded

\* The chain was walked to its innermost object, more cursors alive than the bound
C9_Witness ==
  /\ encoding = ChainInput
  /\ clean
  /\ pos = Len(encoding)
  /\ Len(cursors) > MAX_OBJECT_DEPTH

\* C10: a well-formed input whose objects nest no deeper than the reference's bound
\* of 100, through arrays of objects with a further element and objects with a
\* further field, is decoded without DepthLimitExceeded
C10_WithinBoundDecodes ==
  (encoding = WideInput /\ WideDepth + 1 <= EPEE_LIB_MAX_OBJECT_DEPTH) =>
    (last.res # DepthLimitExceeded /\ error # DepthLimitExceeded)

\* The wire format read on an input that may end early: the offset after a value, n
\* values or n fields starting at offset p, or Beyond, an offset past the end, when the
\* input ends inside them
Beyond == Len(encoding) + 1
RECURSIVE ValueWithin(_, _)
RECURSIVE ItemsWithin(_, _, _)
RECURSIVE FieldsWithin(_, _)
ValueWithin(p, kind) ==
  IF p >= Beyond THEN Beyond
  ELSE IF kind = String
    THEN The({ IF v.res # Ok \/ v.pos + v.val > Len(encoding) THEN Beyond ELSE v.pos + v.val
               : v \in {read_varint(p)} })
  ELSE IF kind = Object
    THEN The({ IF v.res # Ok THEN Beyond ELSE FieldsWithin(v.pos, v.val)
               : v \in {read_varint(p)} })
  ELSE IF p + SizeOf(kind) > Len(encoding) THEN Beyond
  ELSE p + SizeOf(kind)
ItemsWithin(p, kind, n) ==
  IF p >= Beyond THEN Beyond
  ELSE IF n = 0 THEN p
  ELSE ItemsWithin(ValueWithin(p, kind), kind, n - 1)
FieldsWithin(p, n) ==
  IF p >= Beyond THEN Beyond
  ELSE IF n = 0 THEN p
  ELSE IF p + 1 > Len(encoding) THEN Beyond
  ELSE The({ IF q > Len(encoding) THEN Beyond
             ELSE FieldsWithin(IF encoding[q] >= ArrayFlag
                                 THEN The({ IF v.res # Ok THEN Beyond
                                            ELSE ItemsWithin(v.pos, encoding[q] - ArrayFlag, v.val)
                                            : v \in {read_varint(q)} })
                                 ELSE ValueWithin(q, encoding[q]),
                               n - 1)
             : q \in {p + encoding[p + 1] + 2} })

\* Where what a cursor has left ends, or Beyond: the fields of a FieldIterator, the
\* elements of an ArrayIterator or an entry
RestWithin(p, cur) ==
  IF cur.type = "fields" THEN FieldsWithin(p, cur.len) ELSE ItemsWithin(p, cur.kind, cur.len)

\* What the operations may return, and the decoder may store, on a truncated input
TruncatedResults == {"Ok", "Nothing", "TypeError", "EpeeReuse", "Short"}

\* C11: on a well-formed input cut short, no operation panics, fails to terminate or
\* leaves the position past the end of the input; while no operation has returned an
\* error, the only fault is Short: a drop stores Short exactly when the input ends
\* inside what it skips, and a getter of the entry's kind returns Short exactly when
\* the input ends inside the value
C11_TruncationIsShort ==
  encoding \in Truncated =>
    /\ pos <= Len(encoding)
    /\ last.res \notin {Panic, Diverged}
    /\ error \notin {Panic, Diverged}
    /\ last.pre.clean => (last.res.e \in TruncatedResults /\ error.e \in {"None", "Short"})
    /\ (last.op = "drop" /\ last.pre.clean) =>
         (error.e = "Short" <=> RestWithin(last.pre.pos, last.cur) = Beyond)
    /\ (last.op \in {"to_primitive", "to_str"} /\ last.pre.clean /\ last.res # TypeError) =>
         (last.res.e = "Short" <=> ValueWithin(last.pre.pos, last.cur.kind) = Beyond)

\* The drop of an entry of a truncated input, the decoder aligned, stored Short
C11_Witness ==
  /\ encoding \in Truncated
  /\ last.op = "drop"
  /\ last.cur.type = "entry"
  /\ last.pre.clean
  /\ last.pre.pos > Len(Magic)
  /\ error.e = "Short"
  /\ pos <= Len(encoding)

\* The last operation was a typed getter or to_str, and the kind it asks for
GetterCalled == last.op \in {"to_primitive", "to_str"}
Requested == IF last.op = "to_str" THEN String ELSE last.kind

\* The bytes of the value at offset p: the scalar's bytes, or the string's bytes after
\* its length
ValueBytes(p, kind) ==
  IF kind = String
    THEN The({ SubSeq(encoding, v.pos + 1, v.pos + v.val) : v \in {read_varint(p)} })
    ELSE SubSeq(encoding, p + 1, p + SizeOf(kind))

\* C12: a typed getter or to_str returns TypeError on every entry whose kind is not
\* the one asked for or whose len is not 1; with the kind asked for, len 1, no error
\* stored and the value's bytes present it returns the value at the position
C12_GetterTypeChecks ==
  GetterCalled =>
    /\ (last.cur.kind # Requested \/ last.cur.len # 1) => last.res = TypeError
    /\ (/\ last.cur.kind = Requested
        /\ last.cur.len = 1
        /\ last.pre.error = NoError
        /\ ValueWithin(last.pre.pos, Requested) # Beyond) =>
         (last.res = Ok /\ last.val = ValueBytes(last.pre.pos, Requested))

\* to_u8 was refused on a u8 array of two elements
C12_Witness ==
  /\ last.op = "to_primitive"
  /\ last.kind = Uint8
  /\ last.cur.kind = Uint8
  /\ last.cur.len = 2
  /\ last.res = TypeError

\* The width in bytes the encoding gives each scalar type
WidthOf(kind) ==
  CASE kind \in {Int64, Uint64} -> 8
    [] kind \in {Int32, Uint32} -> 4
    [] kind \in {Int16, Uint16} -> 2
    [] kind \in {Int8, Uint8} -> 1
    [] kind = Double -> 8
    [] kind = Bool -> 1

\* The bytes are those of a number below 2^24, and that number by its place values
Small(bytes) == \A i \in 4..Len(bytes) : bytes[i] = 0
PlaceValue(bytes) ==
  bytes[1] + (IF Len(bytes) >= 2 THEN 256 * bytes[2] ELSE 0)
           + (IF Len(bytes) >= 3 THEN 65536 * bytes[3] ELSE 0)

\* The value the bytes of a scalar of a kind stand for: the place value, less 2^8 or
\* 2^16 for a one- or two-byte signed integer with the top bit set
ScalarValue(kind, bytes) ==
  IF kind = Int8 /\ bytes[1] >= 128 THEN PlaceValue(bytes) - 256
  ELSE IF kind = Int16 /\ bytes[2] >= 128 THEN PlaceValue(bytes) - 65536
  ELSE PlaceValue(bytes)

\* The top bit of a signed integer wider than two bytes is set
WideNegative(kind, bytes) == kind \in {Int64, Int32} /\ bytes[Len(bytes)] >= 128

\* C13: a successful typed getter moves the position by exactly the width of the type
\* (8, 4, 2, 1 for the integers, 8 for f64, 1 for bool), over the bytes it returns
\* the little-endian value of; to_bool is true exactly when the byte is not zero
C13_GetterWidthAndValue ==
  (last.op = "to_primitive" /\ last.res = Ok) =>
    /\ pos = last.pre.pos + WidthOf(last.kind)
    /\ last.val = SubSeq(encoding, last.pre.pos + 1, last.pre.pos + WidthOf(last.kind))
    /\ IF last.kind = Bool THEN last.value = (last.val[1] # 0)
       ELSE (Small(last.val) /\ ~WideNegative(last.kind, last.val)) =>
              last.value = ScalarValue(last.kind, last.val)

\* to_i16 read the two bytes d4 fe as -300
C13_Witness ==
  /\ last.op = "to_primitive"
  /\ last.res = Ok
  /\ last.kind = Int16
  /\ last.val = <<212, 254>>
  /\ last.value = 0 - 300
  /\ pos = last.pre.pos + 2

\* On a well-formed input, no operation before the last having returned an error
Aligned == last.pre.clean /\ encoding \in WellFormed

\* The key of the field at offset p, and the offset of its type byte
KeyAt(p) == SubSeq(encoding, p + 2, p + 1 + encoding[p + 1])
TypeByteAt(p) == encoding[p + 2 + encoding[p + 1]]

\* The cursor under the innermost one
Parent == cursors[Len(cursors) - 1]

\* C14: fields() returns TypeError on an entry that is not an object of len 1; on an
\* object it reads the field count f and returns an iterator of f fields; each next()
\* of an iterator with fields left yields the key and an entry of the kind the field
\* declares and counts one field off, and next() with none left returns None, so an
\* iterator yields exactly f pairs and then None
C14_FieldsYieldsCount ==
  /\ (last.op = "fields" /\ (last.cur.kind # Object \/ last.cur.len # 1)) =>
       last.res = TypeError
  /\ (last.op = "fields" /\ last.cur.kind = Object /\ last.cur.len = 1 /\ Aligned) =>
       \E f \in {read_varint(last.pre.pos)} :
           /\ last.res = Ok
           /\ Top = Cursor("fields", Entry, f.val, last.cur.start, f.val)
           /\ pos = f.pos
  /\ (last.op = "field_next" /\ Aligned /\ last.cur.len = 0) =>
       (last.res = Nothing /\ Top = last.cur /\ pos = last.pre.pos)
  /\ (last.op = "field_next" /\ Aligned /\ last.cur.len > 0) =>
       /\ last.res = Ok
       /\ last.val = KeyAt(last.pre.pos)
       /\ Top.type = "entry"
       /\ Top.kind = TypeByteAt(last.pre.pos) % ArrayFlag
       /\ Parent = [last.cur EXCEPT !.len = @ - 1]
       /\ depth(stack) >= depth(last.pre.stack) - 1

\* The iterator of the three fields of the mixed object has yielded all three, each
\* read or skipped, and now returned None
C14_Witness ==
  /\ encoding = Magic \o MixedObject
  /\ last.op = "field_next"
  /\ last.res = Nothing
  /\ last.cur.count = 3
  /\ clean
  /\ pos = Len(encoding)

\* The offset of the first element of the array "a" of the mixed object, and its elements
MixedArrayStart == Len(Magic) + 6
MixedArray == <<7, 9>>

\* C15: iterate() on an entry of kind k and len n returns an iterator of kind k and n
\* elements; each next() with elements left yields an entry of kind k and len 1 that
\* starts right after the elements yielded before it, and counts one element off;
\* next() with none left returns None. On the u8 array [7, 9] of the mixed object
\* to_u8 of the first entry is 7 and of the second 9
C15_IterateYieldsLen ==
  /\ (last.op = "iterate" /\ last.pre.error = NoError) =>
       (last.res = Ok /\ Top = Cursor("array", last.cur.kind, last.cur.len, last.cur.start, last.cur.len))
  /\ (last.op = "array_next" /\ last.pre.error = NoError /\ last.cur.len = 0) =>
       (last.res = Nothing /\ Top = last.cur)
  /\ (last.op = "array_next" /\ last.pre.error = NoError /\ last.cur.len > 0) =>
       /\ last.res = Ok
       /\ Top = Cursor("entry", last.cur.kind, 1, pos, 1)
       /\ Parent = [last.cur EXCEPT !.len = @ - 1]
       /\ Aligned =>
            Top.start = ItemsEnd(last.cur.start, last.cur.kind, last.cur.count - last.cur.len)
  /\ \A i \in 1..Len(MixedArray) :
       (/\ encoding = Magic \o MixedObject
        /\ last.op = "to_primitive"
        /\ last.kind = Uint8
        /\ last.pre.clean
        /\ last.cur.len = 1
        /\ last.cur.start = MixedArrayStart + i - 1) =>
         (last.res = Ok /\ last.value = MixedArray[i])

\* The second entry of the array [7, 9] was read as 9, the first having been consumed,
\* and the iterator has no element left
C15_Witness ==
  /\ encoding = Magic \o MixedObject
  /\ last.op = "to_primitive"
  /\ last.kind = Uint8
  /\ last.value = 9
  /\ clean
  /\ Top = Cursor("array", Uint8, 0, MixedArrayStart, 2)

\* C16: iterate() and ArrayIterator::next leave the position, the stack and the
\* stored error as they were
C16_IterateDoesNoIO ==
  last.op \in {"iterate", "array_next"} =>
    (pos = last.pre.pos /\ stack = last.pre.stack /\ error = last.pre.error)

\* An array of two objects yielded its first entry and not a byte of the array has
\* been consumed
C16_Witness ==
  /\ last.op = "array_next"
  /\ last.res = Ok
  /\ last.cur.kind = Object
  /\ last.cur.count = 2
  /\ last.cur.len = 2
  /\ Top.type = "entry"
  /\ pos = last.cur.start
  /\ clean

\* C17: kind() and len() return the entry's kind and len, the same as the call right
\* before returned, and leave the position, the stack, the stored error and the
\* entry as they were
C17_KindLenIdempotent ==
  last.op \in {"kind", "len"} =>
    /\ last.res = Ok
    /\ last.value = IF last.op = "kind" THEN last.cur.kind ELSE last.cur.len
    /\ last.val # <<>> => last.val[1] = last.value
    /\ pos = last.pre.pos
    /\ stack = last.pre.stack
    /\ error = last.pre.error
    /\ Top = last.cur

\* len() was called twice in a row on an array entry of two elements
C17_Witness ==
  /\ last.op = "len"
  /\ last.val = <<2>>
  /\ last.value = 2
  /\ Top.type = "entry"
  /\ Top.len = 2

\* The little-endian integer of the first w bytes (the bytes after the fourth
\* are zero in every input, so they add nothing)
LittleEndianOf(w) ==
  encoding[1]
    + (IF w >= 2 THEN 256 * encoding[2] ELSE 0)
    + (IF w >= 4 THEN 65536 * encoding[3] + 16777216 * encoding[4] ELSE 0)

\* The value and tag the input was encoded from, as a set of pairs
EncodedFrom ==
  { vt \in VarintValues \X (0..3) :
      /\ vt[2] \in TagsFor(vt[1])
      /\ Len(encoding) >= Widths[vt[2] + 1]
      /\ SubSeq(encoding, 1, Widths[vt[2] + 1]) = EncodeVarint(vt[1], vt[2]) }

\* C18: read_varint consumes 1, 2, 4 or 8 bytes as the low 2 bits of the first
\* byte are 0, 1, 2 or 3, and returns the little-endian integer of those bytes
\* shifted right by 2 (an input with fewer bytes than that is a short read);
\* so every encoding of a value, minimal or wider, decodes to that value.
C18_VarintWidthAndValue ==
  (last.op = "read_varint" /\ Len(encoding) > 0) =>
    LET w == Widths[(encoding[1] % 4) + 1]
    IN  /\ Len(encoding) >= w =>
              /\ last.res = Ok
              /\ pos = w
              /\ last.value = LittleEndianOf(w) \div 4
              /\ \A vt \in EncodedFrom : last.value = vt[1]
        /\ Len(encoding) < w => (last.res.e = "Short" /\ pos <= Len(encoding))

\* A value that fits one byte, read from its eight-byte encoding with a byte after it
C18_Witness ==
  /\ last.op = "read_varint"
  /\ encoding = EncodeVarint(63, 3) \o <<255>>
  /\ EncodeVarint(63, 0) = <<252>>
  /\ last.res = Ok /\ last.value = 63 /\ pos = 8

\* FieldIterator::next that reads a key: no stored error, a field left, and the
\* Entry marker on top of the stack
ReadsKey ==
  /\ last.op = "field_next"
  /\ last.pre.error = NoError
  /\ last.cur.len > 0
  /\ peek(last.pre.stack) # <<>>
  /\ peek(last.pre.stack)[1] = Entry

\* C19: reading a field whose key length byte is 0 returns EmptyKey, and the read
\* has consumed exactly one byte, the length byte; a read that returns EmptyKey
\* is one of a key length byte 0.
C19_EmptyKeyConsumesOneByte ==
  /\ (ReadsKey /\ last.pre.pos < Len(encoding) /\ encoding[last.pre.pos + 1] = 0) =>
        (last.res = EmptyKey /\ pos = last.pre.pos + 1)
  /\ (ReadsKey /\ last.res = EmptyKey) =>
        (pos = last.pre.pos + 1 /\ encoding[pos] = 0)

\* The second field's key has length 0: the first field was read, and the read of
\* the second stops after the length byte
C19_Witness ==
  /\ ReadsKey
  /\ last.res = EmptyKey
  /\ last.cur.len = 1
  /\ last.pre.pos > Len(Magic) + 1
  /\ encoding[last.pre.pos + 1] = 0
  /\ pos = last.pre.pos + 1
  /\ pos < Len(encoding)

\* The array length and the width of the varint in a tail of TypeTails
TailLength(tail) == IF tail[1] = 8 THEN 2 ELSE 3
TailWidth(tail) == IF tail[1] = 8 THEN 1 ELSE 2

\* C20: Type::read accepts exactly the codes 1..12 in bits 0-6 of the tag byte and
\* returns UnrecognizedType for the codes 0 and 13..127, whatever bit 7 is and
\* having read the tag byte only; for an accepted code it reads a varint array
\* length when bit 7 is set, and when it is not it reports length 1 and has read
\* the tag byte only.
C20_TypeReadCodesAndLength ==
  (last.op = "type_read" /\ Len(encoding) > 0) =>
    LET code == encoding[1] % 128
        array == encoding[1] >= 128
        tail == SubSeq(encoding, 2, Len(encoding))
    IN  /\ code \notin 1..12 => (last.res = UnrecognizedType /\ pos = 1)
        /\ (code \in 1..12 /\ ~array) =>
              (last.res = Ok /\ last.kind = code /\ last.value = 1 /\ pos = 1)
        /\ (code \in 1..12 /\ array /\ tail = <<>>) => last.res.e = "Short"
        /\ (code \in 1..12 /\ array /\ tail # <<>>) =>
              /\ last.res = Ok
              /\ last.kind = code
              /\ last.value = TailLength(tail)
              /\ pos = 1 + TailWidth(tail)

\* An array of strings whose length is the varint 3 in two bytes
C20_Witness ==
  /\ last.op = "type_read"
  /\ encoding = <<ArrayFlag + String, 13, 0>>
  /\ last.res = Ok /\ last.kind = String /\ last.value = 3 /\ pos = 3

\* The root entry was handed out and it and every cursor derived from it are gone,
\* no operation having returned an error and none being stored
RootGone ==
  /\ phase = "open"
  /\ taken >= 1
  /\ cursors = <<>>
  /\ clean
  /\ error = NoError

\* C21: once the root entry and every cursor derived from it have gone out of scope
\* with no error, the stack is empty and the position is the end of the root
\* object's encoding, whichever fields and elements were read explicitly.
C21_RootGoneIsExhausted ==
  RootGone =>
    /\ depth(stack) = 0
    /\ pos = ValueWithin(Len(Magic), Object)
    /\ pos <= Len(encoding)

\* One of the two fields of the nested object was read, the iterator was dropped
\* with the other left, and the decoder stands before the byte after the object
C21_Witness ==
  /\ RootGone
  /\ encoding \in Trailing
  /\ last.op = "drop"
  /\ last.cur.type = "fields"
  /\ last.cur.count = 2
  /\ last.cur.len = 1
  /\ depth(stack) = 0
  /\ pos = Len(encoding) - 1

\* The condition of the state HeaderValid as the decoder holds it: no cursor borrows
\* the decoder and Epee::entry's guard lets the root entry out (depth 1, no error)
HeaderValid == phase = "open" /\ cursors = <<>> /\ ~EntryRefused

\* The sticky error, once set, is the one the operation found
ErrorKept == last.pre.error # NoError => error = last.pre.error

\* C22: the decoder never returns to an earlier lifecycle state: the sticky error,
\* once set, is never cleared nor replaced by a different one, and once the root
\* entry has been taken the decoder never again satisfies the HeaderValid condition.
C22_NoWayBack ==
  /\ ErrorKept
  /\ taken >= 1 => ~HeaderValid

\* The offset of the first field of the object a FieldIterator walks: right after the
\* varint of the field count
FirstField(cur) == The({ v.pos : v \in {read_varint(cur.start)} })

\* C23: decoding is depth-first and left to right. The position never decreases; a
\* cursor's value starts at or after the start of the value of the cursor it was
\* derived from; a next() that yields a field yields the key that stands at the
\* position and an entry whose value starts after the key; and on a well-formed
\* input, no operation having returned an error, the field a next() yields after k
\* fields were yielded is the one that follows the first k fields in the input.
C23_DepthFirstLeftToRight ==
  /\ pos >= last.pre.pos
  /\ \A i \in 1..(Len(cursors) - 1) : cursors[i].start <= cursors[i + 1].start
  /\ (last.op = "field_next" /\ last.res = Ok) =>
       /\ last.pre.pos < Len(encoding)
       /\ Len(last.val) = encoding[last.pre.pos + 1]
       /\ last.pre.pos + 1 + Len(last.val) < Len(encoding)
       /\ \A i \in 1..Len(last.val) : last.val[i] = encoding[last.pre.pos + 1 + i]
       /\ Top.start = pos
       /\ pos > last.pre.pos + 1 + Len(last.val)
  /\ (last.op = "field_next" /\ last.res = Ok /\ Aligned) =>
       last.pre.pos = FieldsEnd(FirstField(last.cur), last.cur.count - last.cur.len)

\* The third field of the mixed object, "c", was yielded, the first two having been
\* read or skipped
C23_Witness ==
  /\ last.op = "field_next"
  /\ last.res = Ok
  /\ Aligned
  /\ encoding = Magic \o MixedObject
  /\ last.cur.count = 3
  /\ last.cur.len = 1
  /\ last.val = <<99>>
  /\ last.pre.pos = FieldsEnd(Len(Magic) + 2, 2)
  /\ last.pre.pos = Len(Magic) + 14

\* to_str or to_fixed_len_str was called on a String entry of len 1, no error being
\* stored, and the input holds the whole string: its varint length L and L bytes
StringRead ==
  /\ last.op \in {"to_str", "to_fixed_len_str"}
  /\ last.cur.kind = String
  /\ last.cur.len = 1
  /\ last.pre.error = NoError
  /\ \E L \in {read_varint(last.pre.pos)} : L.res = Ok /\ L.pos + L.val <= Len(encoding)

\* C24: to_str on a String entry of len 1 consumes the varint length L and the L
\* bytes after it and returns those L bytes; to_fixed_len_str(n) returns them when
\* L = n and TypeError when L # n; in every one of these cases the position is right
\* after the string and the entry's slot is popped.
C24_StringGetters ==
  StringRead =>
    \E L \in {read_varint(last.pre.pos)} :
        /\ pos = L.pos + L.val
        /\ Slots(stack) = Slots(pop(last.pre.stack).stack)
        /\ error = NoError
        /\ (last.op = "to_str" \/ L.val = last.kind) =>
              /\ last.res = Ok
              /\ Len(last.val) = L.val
              /\ last.val = SubSeq(encoding, L.pos + 1, L.pos + L.val)
        /\ (last.op = "to_fixed_len_str" /\ L.val # last.kind) => last.res = TypeError

\* to_fixed_len_str(0) on the string "hi": TypeError, the position after the string
C24_Witness ==
  /\ StringRead
  /\ last.op = "to_fixed_len_str"
  /\ last.kind = 0
  /\ encoding = Magic \o MixedObject
  /\ SubSeq(encoding, last.pre.pos + 1, last.pre.pos + 3) = <<8, 104, 105>>
  /\ last.res = TypeError
  /\ pos = last.pre.pos + 3

\* The stack after the slot on top was popped and one slot <<kind, amount>> was
\* scheduled in its place
Rescheduled(s, kind, amount) == Slots(pop(s).stack) \o <<<<kind, amount>>>>

\* C25: the decoder's state is a function of depth, not of declared width. The
\* stack is always its MAX_OBJECT_DEPTH slots and its depth; an object scheduled by
\* fields() with f >= 1 fields and a value scheduled by next() with n >= 1 elements
\* take exactly one slot, whatever f and n are; and the single_step the decoder
\* would do next raises the depth by at most 1, as did the one fields() or next() did.
C25_StateIsDepthNotWidth ==
  /\ Len(stack.amounts) = MAX_OBJECT_DEPTH /\ Len(stack.types) = PackedLen
  /\ depth(stack) <= MAX_OBJECT_DEPTH
  /\ (last.op = "fields" /\ last.res = Ok /\ Top.len >= 1) =>
       Slots(stack) = Rescheduled(last.pre.stack, Entry, Top.len)
  /\ (last.op = "field_next" /\ last.res = Ok /\ Top.len >= 1) =>
       Slots(stack) = Rescheduled(last.pre.stack, Top.kind, Top.len)
  /\ last.op \in {"fields", "field_next"} => depth(stack) <= depth(last.pre.stack) + 1
  /\ phase = "open" => depth(single_step(stack, pos).stack) <= depth(stack) + 1

\* next() yielded an array that declares HugeCount elements: one slot holds it
C25_Witness ==
  /\ last.op = "field_next"
  /\ last.res = Ok
  /\ encoding \in Huge
  /\ Top.kind = Uint8
  /\ Top.len = HugeCount
  /\ depth(last.pre.stack) = 1
  /\ depth(stack) = 1
  /\ Slots(stack) = <<<<Uint8, HugeCount>>>>

\* C27: push(kind, 0) returns Ok and leaves the stack as it was in every state, the
\* full stack included; DepthLimitExceeded is returned only for a push of an amount
\* of 1 or more on a full stack, so a fields() that returns it has read a field
\* count of 1 or more.
C27_PushZeroSucceeds ==
  /\ \A kind \in {Entry, Uint8, Object} : push(stack, kind, 0) = [stack |-> stack, res |-> Ok]
  /\ (last.op = "fields" /\ last.res = DepthLimitExceeded) => encoding[last.pre.pos + 1] # 0

\* The slots of s under its top slot
UnderTop(s) == SubSeq(Slots(s), 1, depth(s) - 1)

\* The kinds and amounts pushed on every stack reached
PushKinds == {Entry, Uint8, Object}
PushAmounts == {1, 2}

\* C28: pop on a stack that is not empty returns the kind of the top slot and
\* counts the slot's amount down by one, the slot going (depth - 1) exactly when
\* the amount reaches 0; pop on the empty stack returns None and changes nothing;
\* pop and push leave the kind and the amount of every slot under the top as
\* they were, a push adding the slot <<kind, amount>> on top of them.
C28_PopAndPushFrame ==
  /\ depth(stack) = 0 => pop(stack) = [stack |-> stack, kind |-> -1]
  /\ depth(stack) > 0 =>
       \E top \in {Slots(stack)[depth(stack)]} : \E popped \in {pop(stack)} :
           /\ popped.kind = top[1]
           /\ top[2] > 1 => Slots(popped.stack) = UnderTop(stack) \o <<<<top[1], top[2] - 1>>>>
           /\ top[2] = 1 => Slots(popped.stack) = UnderTop(stack)
  /\ depth(stack) < MAX_OBJECT_DEPTH =>
       \A kind \in PushKinds : \A amount \in PushAmounts :
          \E pushed \in {push(stack, kind, amount)} :
              /\ pushed.res = Ok
              /\ Slots(pushed.stack) = Slots(stack) \o <<<<kind, amount>>>>

\* fields() on the first of an array's two objects: the pop counted the array's
\* slot down to 1 and kept it, and the push put the object's fields on top of it
C28_Witness ==
  /\ last.op = "fields"
  /\ last.res = Ok
  /\ depth(last.pre.stack) >= 3
  /\ Slots(last.pre.stack)[depth(last.pre.stack)] = <<Object, 2>>
  /\ depth(stack) = depth(last.pre.stack) + 1
  /\ Slots(stack)[depth(stack) - 1] = <<Object, 1>>
  /\ Slots(stack)[depth(stack)] = <<Entry, 2>>
  /\ UnderTop(last.pre.stack) = SubSeq(Slots(stack), 1, depth(stack) - 2)

\* C29: in every state every slot under the depth has an amount of 1 or more and
\* holds Entry or one of the 12 types, so PackedTypes::get never reads one of the
\* tags 13..=15 it panics on: no operation panics.
C29_SlotsAreValid ==
  /\ \A i \in 1..depth(stack) :
       /\ Slots(stack)[i][1] \in Entry..Object
       /\ Slots(stack)[i][2] >= 1
  /\ last.res # Panic
  /\ error # Panic

\* Four slots of three kinds: next() yielded the field "p" of the first object of
\* the array "x" of the nested object
C29_Witness ==
  /\ last.op = "field_next"
  /\ last.res = Ok
  /\ encoding = Magic \o NestedObject
  /\ Slots(stack) = <<<<Entry, 1>>, <<Object, 1>>, <<Entry, 1>>, <<Int16, 1>>>>

\* C30: right after a successful Epee::new the stack is the one slot (Object, 1) at
\* depth 1 and no error is stored; the first entry() is not refused and returns an
\* entry of kind Object and len 1, the position and the stack being those new left.
C30_RootIsOneObject ==
  /\ (last.op = "new" /\ last.res = Ok) =>
       /\ depth(stack) = 1
       /\ Slots(stack) = <<<<Object, 1>>>>
       /\ error = NoError
       /\ pos = Len(Magic)
       /\ cursors = <<>>
  /\ last.op = "entry" => taken >= 1
  /\ (last.op = "entry" /\ taken = 1 /\ last.res = Ok) =>
       /\ Top = Cursor("entry", Object, 1, Len(Magic), 1)
       /\ pos = Len(Magic)
       /\ stack = root_object
       /\ error = NoError

\* The root entry of the mixed object, just handed out
C30_Witness ==
  /\ last.op = "entry"
  /\ last.res = Ok
  /\ taken = 1
  /\ encoding = Magic \o MixedObject
  /\ Top.kind = Object /\ Top.len = 1
  /\ pos = Len(Magic)
  /\ Slots(stack) = <<<<Object, 1>>>>

ValueWidths == <<8, 4, 2, 1, 8, 4, 2, 1, 8, 0, 1>>

\* An entry of len 1 of a scalar kind or of String whose slot is on top of the stack,
\* no error being stored
Readable ==
  /\ Top.type = "entry"
  /\ Top.len = 1
  /\ Top.kind \in ScalarKinds \cup {String}
  /\ error = NoError
  /\ depth(stack) > 0
  /\ peek(stack)[1] = Top.kind

\* Such an entry was consumed by the operation op, which returned Ok
Consumed(op) ==
  /\ last.op = op
  /\ last.res = Ok
  /\ last.cur.type = "entry"
  /\ last.cur.len = 1
  /\ last.cur.kind \in ScalarKinds \cup {String}
  /\ last.pre.error = NoError
  /\ depth(last.pre.stack) > 0
  /\ peek(last.pre.stack)[1] = last.cur.kind

\* The offset after the value of a kind at offset p: the kind's width, or for String
\* the length varint and as many bytes as it says
AfterValue(p, kind) ==
  IF kind = String THEN The({ v.pos + v.val : v \in {read_varint(p)} })
  ELSE p + ValueWidths[kind]

\* C31: for every scalar kind and for String, skipping a value with single_step
\* consumes the bytes and leaves the stack that reading it with the matching typed
\* getter or to_str does, and fails when that fails: 8, 4, 2, 1 bytes for i64..i8 and
\* u64..u8, 8 for f64, 1 for bool, the length varint and the payload for String. So
\* an entry dropped and an entry read leave the same position and stack.
C31_SkipIsRead ==
  /\ Readable =>
       \E skip \in {single_step(stack, pos)} :
       \E read \in {IF Top.kind = String THEN ToStrResult ELSE ToPrimitiveResult(Top.kind)} :
           /\ skip.pos = read.pos
           /\ Slots(skip.stack) = Slots(read.stack)
           /\ skip.res = read.res
           /\ skip.res = Ok => skip.pos = AfterValue(pos, Top.kind)
  /\ \A op \in {"drop", "to_primitive", "to_str"} :
       Consumed(op) =>
         /\ pos = AfterValue(last.pre.pos, last.cur.kind)
         /\ Slots(stack) = Slots(pop(last.pre.stack).stack)

\* The field "m" of the scalar object, an i16, was dropped: two bytes were skipped
C31_Witness ==
  /\ Consumed("drop")
  /\ encoding = Magic \o ScalarObject
  /\ last.cur.kind = Int16
  /\ pos = last.pre.pos + 2
  /\ SubSeq(encoding, last.pre.pos + 1, pos) = <<212, 254>>

\* The slots of s with its top slot counted down by one and, when amount >= 1, the
\* slot <<kind, amount>> on top of them
Scheduled(s, kind, amount) ==
  Slots(pop(s).stack) \o IF amount >= 1 THEN <<<<kind, amount>>>> ELSE <<>>

\* The field at offset p read off the bytes: the offset of its type byte, its kind,
\* its declared length (1 without the array bit) and the offset where its values start
TagOffset(p) == p + 1 + encoding[p + 1]
FieldKind(p) == encoding[TagOffset(p) + 1] % ArrayFlag
FieldLen(p) ==
  IF encoding[TagOffset(p) + 1] >= ArrayFlag
    THEN The({ v.val : v \in {read_varint(TagOffset(p) + 1)} })
    ELSE 1
FieldValues(p) ==
  IF encoding[TagOffset(p) + 1] >= ArrayFlag
    THEN The({ v.pos : v \in {read_varint(TagOffset(p) + 1)} })
    ELSE TagOffset(p) + 1

\* C32: a single_step that succeeds on a top slot of kind Object reads one varint f,
\* counts that slot down by one and leaves Entry x f as the new top slot (no new
\* slot when f = 0), producing Object{fields: f}; on a top slot of kind Entry it
\* reads the key, the type tag and, with the array bit, the length n (1 without),
\* counts that slot down by one and leaves (kind, n) as the new top slot (no new
\* slot when n = 0), producing Entry{key, kind, n}. fields() and next() hand out
\* what that single_step produced.
C32_ObjectAndEntrySteps ==
  /\ (phase = "open" /\ depth(stack) > 0 /\ peek(stack)[1] = Object) =>
       \E r \in {single_step(stack, pos)} : \E f \in {read_varint(pos)} :
           r.res = Ok =>
             /\ f.res = Ok
             /\ r.pos = f.pos
             /\ r.out = StepObject(f.val)
             /\ Slots(r.stack) = Scheduled(stack, Entry, f.val)
  /\ (phase = "open" /\ depth(stack) > 0 /\ peek(stack)[1] = Entry) =>
       \E r \in {single_step(stack, pos)} :
           r.res = Ok =>
             /\ r.out = StepEntry(KeyAt(pos), FieldKind(pos), FieldLen(pos))
             /\ Len(r.out.key) >= 1
             /\ r.pos = FieldValues(pos)
             /\ Slots(r.stack) = Scheduled(stack, FieldKind(pos), FieldLen(pos))
  /\ (last.op = "fields" /\ last.res = Ok) =>
       /\ Top.len = read_varint(last.pre.pos).val
       /\ Slots(stack) = Scheduled(last.pre.stack, Entry, Top.len)
  /\ (last.op = "field_next" /\ last.res = Ok) =>
       /\ Top.kind = FieldKind(last.pre.pos) /\ Top.len = FieldLen(last.pre.pos)
       /\ Slots(stack) = Scheduled(last.pre.stack, Top.kind, Top.len)

\* next() yielded the field "e" of the array object, an array of no element: the
\* Entry slot was counted down from 3 to 2 and no slot was added
C32_Witness ==
  /\ last.op = "field_next"
  /\ last.res = Ok
  /\ encoding = Magic \o ArrayObject
  /\ last.val = <<101>>
  /\ Top.kind = Uint8 /\ Top.len = 0
  /\ Slots(last.pre.stack) = <<<<Entry, 3>>>>
  /\ Slots(stack) = <<<<Entry, 2>>>>
  /\ pos = last.pre.pos + 4

\* The offset after one item of the slot kind at offset p: a field for Entry, a
\* value for a type
ItemEnd(p, kind) == IF kind = Entry THEN FieldsEnd(p, 1) ELSE ValueEnd(p, kind)

\* The stack s after one item of its top slot <<k, r>> is gone: the slot counted
\* down to r - 1, or removed when r = 1, the slots under it as they were
OneItemLess(s) ==
  The({ UnderTop(s) \o IF top[2] > 1 THEN <<<<top[1], top[2] - 1>>>> ELSE <<>>
        : top \in {Slots(s)[depth(s)]} })

\* C33: on a well-formed input, no operation having returned an error, step on a
\* stack whose top slot is (k, r) at depth d returns Ok with depth d - 1 when r = 1
\* and with depth d and the top slot (k, r - 1) when r > 1; the slots under the top
\* are unchanged, and the position is right after one value of kind k with all its
\* descendants (one field when k is Entry). The drop of an entry of len 1 is that step.
C33_StepSkipsOneValue ==
  /\ (encoding \in WellFormed \cup Trailing /\ clean /\ phase = "open" /\ depth(stack) > 0) =>
       \E r \in {step(stack, pos)} :
           /\ r.res = Ok
           /\ depth(r.stack) = IF peek(stack)[2] = 1 THEN depth(stack) - 1 ELSE depth(stack)
           /\ Slots(r.stack) = OneItemLess(stack)
           /\ r.pos = ItemEnd(pos, peek(stack)[1])
  /\ (CleanDropOf("entry") /\ last.cur.len = 1) =>
       /\ Slots(stack) = OneItemLess(last.pre.stack)
       /\ pos = ItemEnd(last.pre.pos, last.cur.kind)

\* The first of the two objects of the array "x" of the nested object was dropped
\* unread: its ten bytes were skipped and the array's slot counts one object
C33_Witness ==
  /\ CleanDropOf("entry")
  /\ encoding = Magic \o NestedObject
  /\ last.cur.kind = Object /\ last.cur.len = 1
  /\ Slots(last.pre.stack) = <<<<Entry, 1>>, <<Object, 2>>>>
  /\ Slots(stack) = <<<<Entry, 1>>, <<Object, 1>>>>
  /\ pos = last.pre.pos + 10

\* The cursor the caller can drop next holds a count beyond the whole input
CountBeyondInput == cursors # <<>> /\ Top.len > Len(encoding)

\* C34: on every input, well-formed or not, a single_step on a non-empty stack
\* consumes at least one byte or returns an error; step ends within one single_step
\* per byte left plus one, and so does the drop of the cursor the caller can drop,
\* in steps; with an empty stack and no error stored no cursor has anything left to
\* count; and the drop of a cursor that counts more items than the input has bytes
\* ends with an error stored, inside the input.
C34_SkipsTerminate ==
  /\ depth(stack) > 0 =>
       /\ \E r \in {single_step(stack, pos)} : r.res # Ok \/ r.pos > pos
       /\ step(stack, pos).res # Diverged
  /\ cursors # <<>> => Dropped.error # Diverged
  /\ error # Diverged /\ last.res # Diverged
  /\ (depth(stack) = 0 /\ error = NoError) => \A i \in 1..Len(cursors) : cursors[i].len = 0
  /\ (CountBeyondInput /\ error = NoError) =>
       /\ Dropped.error \notin {NoError, Diverged, Panic}
       /\ Dropped.pos <= Len(encoding)
  /\ (last.op = "drop" /\ last.cur.len > Len(encoding)) => error \notin {NoError, Diverged, Panic}

\* The array of the second huge input declares HugeCount elements and holds two:
\* its ArrayIterator was dropped unread, the two bytes were skipped and the third
\* step stored Short(1)
C34_Witness ==
  /\ last.op = "drop"
  /\ last.cur.type = "array"
  /\ last.cur.len = HugeCount
  /\ last.pre.error = NoError
  /\ last.pre.pos = Len(encoding) - 2
  /\ error = Short(1)
  /\ pos = Len(encoding)

\* The lengths asked of the slice: up to one more than the widest scalar
MaxRead == 9
ReadLens == 0..MaxRead

\* What a read of n bytes at offset p gives by the contract: the n bytes and the
\* offset after them, or Short(n) and the offset it was asked at
Contract(p, n) ==
  IF Len(encoding) - p >= n
    THEN [pos |-> p + n, res |-> Ok, val |-> [i \in 1..n |-> encoding[p + i]]]
    ELSE [pos |-> p, res |-> Short(n), val |-> <<>>]

\* C35: at every position the decoder reaches, on every input, read_bytes(n) with n
\* bytes or more left returns the next n bytes and advances by n, and with fewer left
\* returns Short(n) and leaves the position; read_into_slice does the same for the
\* destination's length, read_byte for 1 and advance::<N> for N, the bytes dropped. A
\* typed getter of the entry's kind reads its scalar that way.
C35_ReadContract ==
  /\ phase = "open" => \A n \in ReadLens :
       /\ read_bytes(pos, n) = Contract(pos, n)
       /\ read_into_slice(pos, n) = Contract(pos, n)
       /\ advance(pos, n) = [pos |-> Contract(pos, n).pos, res |-> Contract(pos, n).res]
  /\ phase = "open" => \E r \in {read_byte(pos)}, c \in {Contract(pos, 1)} :
       /\ r.pos = c.pos /\ r.res = c.res
       /\ r.res = Ok => r.val = encoding[pos + 1]
  /\ (last.op = "to_primitive" /\ last.pre.clean /\ last.res # TypeError) =>
       \E c \in {Contract(last.pre.pos, SizeOf(last.kind))} :
           /\ last.res = c.res
           /\ pos = c.pos
           /\ last.res = Ok => last.val = c.val

\* A getter asked for the eight bytes of a u64 of which the cut input holds fewer: it
\* returned Short(8) and the position stayed
C35_Witness ==
  /\ last.op = "to_primitive"
  /\ last.pre.clean
  /\ last.kind = Uint64
  /\ Len(encoding) - last.pre.pos \in 1..7
  /\ last.res = Short(8)
  /\ pos = last.pre.pos

\* No operation has returned an error and none is stored, and a cursor is alive
InSync == phase = "open" /\ clean /\ error = NoError /\ cursors # <<>>

\* A cursor counts on the slot of the cursor under it when that one is an
\* ArrayIterator: the entry ArrayIterator::next yields (len 1, nothing popped), or
\* the ArrayIterator iterate() makes of such an entry. A FieldIterator has its own
\* slot, pushed by the single_step of fields().
SharesSlot(cs, i) == i > 1 /\ cs[i - 1].type = "array" /\ cs[i].type # "fields"

\* The slots the live cursors cs count on, outermost first, each with the sum of the
\* counters of the cursors that count on it (0 for a slot counted down to nothing)
RECURSIVE CountedSlots(_)
CountedSlots(cs) ==
  IF cs = <<>> THEN <<>>
  ELSE The({ IF SharesSlot(cs, Len(cs))
               THEN [under EXCEPT ![Len(under)] = <<@[1], @[2] + cs[Len(cs)].len>>]
               ELSE Append(under, <<cs[Len(cs)].kind, cs[Len(cs)].len>>)
             : under \in {CountedSlots(SubSeq(cs, 1, Len(cs) - 1))} })

HasItems(slot) == slot[2] >= 1
ExpectedSlots(cs) == SelectSeq(CountedSlots(cs), HasItems)

\* C36 as stated: with no error returned or stored so far, the innermost cursor (the
\* one with no live child) counts n: for a FieldIterator or an ArrayIterator the top
\* slot is (Entry, n) or (the array's kind, n) when n >= 1, and the stack is that of
\* the cursors under it when n = 0; for an entry of len n >= 1 the top slot is (kind, n)
C36_CounterIsTopSlot ==
  InSync =>
    /\ Top.len >= 1 => (depth(stack) > 0 /\ peek(stack) = <<Top.kind, Top.len>>)
    /\ (Top.type # "entry" /\ Top.len = 0) => Slots(stack) = ExpectedSlots(Below)

\* C36, amended: with no error returned or stored so far, the stack is the slots the
\* live cursors count on. A FieldIterator, the root entry and an entry a FieldIterator
\* yielded have a slot of their own; the entry an ArrayIterator yields, and the
\* ArrayIterator made of it, count on the ArrayIterator's slot, which holds the sum of
\* their counters and is absent when the sum is 0.
C36_CountersAreSlots == InSync => Slots(stack) = ExpectedSlots(cursors)

\* The first of the two u8 of the array "a" was yielded and is not yet read: the
\* iterator counts 1, the entry 1, the slot 2
C36_Witness ==
  /\ InSync
  /\ Len(cursors) >= 2
  /\ Top.type = "entry" /\ Top.kind = Uint8 /\ Top.len = 1
  /\ cursors[Len(cursors) - 1].type = "array"
  /\ cursors[Len(cursors) - 1].len = 1
  /\ peek(stack) = <<Uint8, 2>>

\* The entry c is a field's, and the bytes before its value are a tag with the array
\* bit and the one-byte varint of 1
ArrayBitOne(c) ==
  /\ c.type = "entry"
  /\ c.start >= Len(Magic) + 2 /\ c.start <= Len(encoding)
  /\ encoding[c.start] = 4
  /\ encoding[c.start - 1] = ArrayFlag + c.kind

\* The entry c is a field's, and the byte before its value is a tag without the array
\* bit, after the last byte of a key (a tag with the array bit before a varint is not)
PlainTag(c) ==
  /\ c.type = "entry"
  /\ c.start >= Len(Magic) + 2 /\ c.start <= Len(encoding)
  /\ encoding[c.start] = c.kind
  /\ encoding[c.start - 1] < ArrayFlag
  /\ c.kind # Entry

\* What an entry of one value answers, wherever its len of 1 comes from: the entry a
\* FieldIterator yielded has len 1 and the slot (kind, 1); a typed getter of its kind
\* and to_str return the value's bytes, fields() the iterator over the object's
\* fields; each consumes the value's bytes and the slot
UnitAnswers ==
  /\ (last.op = "field_next" /\ last.res = Ok) =>
       /\ Top.len = 1
       /\ Slots(stack) = Append(Slots(pop(last.pre.stack).stack), <<Top.kind, 1>>)
       /\ pos = Top.start
  /\ (last.op = "to_primitive" /\ last.kind = last.cur.kind) =>
       /\ last.cur.len = 1
       /\ last.res = Ok
       /\ last.val = SubSeq(encoding, last.pre.pos + 1, last.pre.pos + SizeOf(last.kind))
       /\ pos = last.pre.pos + SizeOf(last.kind)
       /\ Slots(stack) = OneItemLess(last.pre.stack)
  /\ (last.op = "to_primitive" /\ last.kind # last.cur.kind) => last.res = TypeError
  /\ (last.op = "to_str" /\ last.cur.kind = String) =>
       /\ last.cur.len = 1
       /\ last.res = Ok
       /\ last.val = ValueBytes(last.pre.pos, String)
       /\ pos = ValueEnd(last.pre.pos, String)
       /\ Slots(stack) = OneItemLess(last.pre.stack)
  /\ (last.op = "to_str" /\ last.cur.kind # String) => last.res = TypeError
  /\ (last.op = "fields" /\ last.cur.kind = Object) =>
       /\ last.cur.len = 1
       /\ last.res = Ok
       /\ Top = Cursor("fields", Entry, read_varint(last.pre.pos).val, last.cur.start,
                       read_varint(last.pre.pos).val)
       /\ pos = read_varint(last.pre.pos).pos
  /\ (last.op = "fields" /\ last.cur.kind # Object) => last.res = TypeError

\* The entry the last operation yielded or was called on
Subject == IF last.op = "field_next" THEN Top ELSE last.cur

\* C37: on a well-formed input, no operation having returned an error before, the
\* entry of a field whose tag has the array bit and whose declared length is 1
\* answers as the entry of a field without the array bit does: len() is 1, and
\* fields(), the typed getters and to_str succeed on it as on a unit value and
\* consume the same value bytes
C37_SingletonIsUnit ==
  (/\ encoding \in WellFormed
   /\ last.pre.clean
   /\ last.op \in {"field_next", "to_primitive", "to_str", "fields"}
   /\ (ArrayBitOne(Subject) \/ PlainTag(Subject))) => UnitAnswers

\* to_str on the field "b": ["hi"] of the singleton object returned the two bytes
C37_Witness ==
  /\ encoding = Magic \o SingletonObject
  /\ last.op = "to_str"
  /\ last.pre.clean
  /\ ArrayBitOne(last.cur)
  /\ last.cur.kind = String
  /\ last.res = Ok
  /\ last.val = <<104, 105>>
  /\ pos = last.pre.pos + 3

\* The bytes before the value of the cursor c are a tag with the array bit and the
\* one-byte varint of 0
ArrayBitZero(c) ==
  /\ c.type \in {"entry", "array"}
  /\ c.start >= Len(Magic) + 2 /\ c.start <= Len(encoding)
  /\ encoding[c.start] = 0
  /\ encoding[c.start - 1] = ArrayFlag + c.kind

\* The last operation left the position, the stack and the stored error as they were
NothingConsumed ==
  /\ pos = last.pre.pos
  /\ stack = last.pre.stack
  /\ error = last.pre.error

\* The field a FieldIterator::next would yield now is the one whose bytes begin at
\* the position
SiblingDecodes ==
  \E r \in {FieldNextResult} :
      /\ r.res = Ok
      /\ r.out.key = KeyAt(pos)
      /\ r.out.kind = TypeByteAt(pos) % ArrayFlag
      /\ r.len = Top.len - 1

\* C38: no operation having returned an error before, the entry of a field whose tag
\* has the array bit and whose declared length is 0 has len() = 0 and no slot of its
\* own; iterate() on it gives an iterator whose next() is None; every typed getter,
\* to_str, to_fixed_len_str and fields() return TypeError; none of these, nor the
\* drop of the entry or of the iterator, consumes a byte or changes the stack, and
\* on a well-formed input the FieldIterator then yields the next sibling field
C38_EmptyArrayField ==
  /\ (last.op = "field_next" /\ last.res = Ok /\ last.pre.clean /\ ArrayBitZero(Top)) =>
       /\ Top.type = "entry" /\ Top.len = 0
       /\ Slots(stack) = Slots(pop(last.pre.stack).stack)
       /\ pos = Top.start
  /\ (last.pre.clean /\ ArrayBitZero(last.cur)) =>
       /\ last.cur.len = 0
       /\ last.op \in {"to_primitive", "to_str", "to_fixed_len_str", "fields"} =>
            (last.res = TypeError /\ NothingConsumed)
       /\ last.op = "iterate" =>
            /\ last.res = Ok /\ NothingConsumed
            /\ Top = [last.cur EXCEPT !.type = "array"]
       /\ last.op = "array_next" => (last.res = Nothing /\ NothingConsumed /\ Top = last.cur)
       /\ last.op = "drop" => (last.res = Ok /\ NothingConsumed)
       /\ (/\ last.op \in {"to_primitive", "to_str", "to_fixed_len_str", "fields", "drop"}
           /\ encoding \in WellFormed
           /\ Top.type = "fields" /\ Top.len >= 1) =>
            (pos = last.cur.start /\ SiblingDecodes)

\* fields() on the empty u8 array "e" returned TypeError, and the FieldIterator is
\* about to yield the field "g"
C38_Witness ==
  /\ encoding = Magic \o ArrayObject
  /\ last.op = "fields"
  /\ last.pre.clean
  /\ ArrayBitZero(last.cur)
  /\ last.res = TypeError
  /\ pos = last.pre.pos
  /\ Top.type = "fields" /\ Top.len = 2
  /\ FieldNextResult.out.key = <<103>>

\* C39: for every index i below the depth bound and every kind (Entry or one of the
\* 12 types), on arrays that hold every tag next to every other, get(i) after
\* set(i, kind) returns kind, and set(i, kind) leaves the tag at every other index,
\* the one sharing the byte of i included, as it was
C39_PackedSetGet ==
  /\ phase \in {"set", "got"} =>
       \A j \in PackedIndices :
          PackedGet(stack.types, j) =
            IF j = last.val[1] THEN last.kind ELSE PackedGet(last.pre.stack.types, j)
  /\ phase = "got" =>
       last.value =
         IF last.val[2] = last.val[1] THEN last.kind
         ELSE PackedGet(last.pre.stack.types, last.val[2])
  /\ phase \in {"set", "got"} => Len(stack.types) = PackedLen

\* Object was set at index 1 of an array whose index 0, in the same byte, held
\* another type: get(0) returned that type
C39_Witness ==
  /\ phase = "got"
  /\ last.val = <<1, 0>>
  /\ last.kind = Object
  /\ PackedGet(last.pre.stack.types, 0) \in Int64..Bool
  /\ PackedGet(last.pre.stack.types, 1) # Object
  /\ last.value = PackedGet(last.pre.stack.types, 0)
  /\ PackedGet(stack.types, 1) = Object

=============================================================================
